---- MODULE Spec2Model ----
(***************************************************************************)
(* Model of the request/response layer of ResumeMiner's agent-platform     *)
(* client: Requester._parse_response and _parse_requests_code_msg          *)
(* (src/request.py) and the chat stream handler                            *)
(* (src/aiagentplatformpy/chat/__init__.py).                               *)
(*                                                                         *)
(* Python values are encoded as follows.                                   *)
(*   Optional[x]   : <<>> is None, <<x>> is the value x.                   *)
(*   dict (a body) : a function whose DOMAIN is the set of keys present.   *)
(*   JSON payload  : a record [t, v] tagged with its Python type:          *)
(*                   "list" (v a sequence), "dict" (v a record),           *)
(*                   "null" (v empty).                                     *)
(*   header text   : a sequence of one-character strings, so that lower()  *)
(*                   and the substring test are computed, not assumed.     *)
(***************************************************************************)
EXTENDS Integers, Sequences, FiniteSets, TLC

VARIABLES
  pc,            \* where the call is: "idle", "awaiting", "received", "returned",
                 \* "raised", "streaming", "stream_end", "stream_raised"; in a
                 \* chat call also "unwind", "exit", "done"
  request,       \* the arguments of the call that reach _parse_response
  response,      \* the transport's response
  result,        \* what _parse_response returned or raised
  frames,        \* the frames of an event-stream body, in wire order
  pos,           \* number of frames the stream has consumed
  events,        \* the ChatEvents yielded so far
  stream_error,  \* the exception that ended the stream, if any
  \* one call of ChatClient / AsyncChatClient create() or stream()
  client,        \* [mode, api] of the chat call
  held,          \* the call holds a transport connection
  released,      \* number of times the call's connection was released
  session,       \* the call's aiohttp session: "none", "open", "closed"
  pending,       \* the exception propagating out of the call, if any
  outcome,       \* what the caller of create() / stream() observed
  \* the body of an event-stream response on its way to frames
  wire,          \* the bytes of the body, in wire order
  fmode,         \* "sync" (requests iter_lines) or "async" (aiohttp readline)
  fed,           \* number of bytes the transport has delivered
  lpending,      \* the line source's unfinished line
  cur,           \* the frame being accumulated
  fout,          \* the frames completed so far
  fstate,        \* "open", "done"
  \* calls in flight on one AsyncChatClient, which share one Requester
  a_session,     \* Requester.a_session: 0 is None, else the id of a session
  sess,          \* for each session id: "new", "open", "closed"
  closes,        \* for each session id: times it went from open to closed
  calls,         \* for each call: where it is and whether it broke
  \* one call of Requester.request / arequest seen from the transport
  auth,          \* the auth object the Requester was built with
  dargs,         \* the arguments request / arequest was called with
  dreq,          \* the request descriptor that make_request built
  sent,          \* what the session's request method was called with
  dpc,           \* "idle", "built", "returned", "raised"
  net,           \* the transport calls made so far, with their outcomes
  dresult,       \* what request / arequest gave its caller
  \* one MultiRoundChatAPI with the ResumeExtractor that owns it
  conversation_id, \* MultiRoundChatAPI.conversation_id, None until set
  chat_history,  \* MultiRoundChatAPI.chat_history
  sends,         \* the send_message calls made so far, with what chat.create
                 \* had to give to each
  apc,           \* "idle", "rounds", "rounds_returned", "batch",
                 \* "batch_returned"
  work,          \* the messages / queries of the call in progress
  idx,           \* number of them the loop has processed
  responses,     \* multi_round_chat's list of responses
  extracted_data,  \* batch_extract_resumes' list of extracted records
  failed_queries,  \* batch_extract_resumes' list of failed queries
  \* one call of a QueryLoader method
  loader,        \* "excel", "csv", "txt"
  column,        \* the cells / lines read from the file
  queries,       \* the list the loader returned
  qpc            \* "idle", "loaded"

coreVars == <<pc, request, response, result, frames, pos, events, stream_error>>
chatVars == <<client, held, released, session, pending, outcome>>
framVars == <<wire, fmode, fed, lpending, cur, fout, fstate>>
sessVars == <<a_session, sess, closes, calls>>
dispVars == <<auth, dargs, dreq, sent, dpc, net, dresult>>
appVars ==
  <<conversation_id, chat_history, sends, apc, work, idx, responses, extracted_data,
    failed_queries>>
loadVars == <<loader, column, queries, qpc>>
nonCoreVars == <<chatVars, framVars, sessVars, dispVars, appVars, loadVars>>
nonChatVars == <<framVars, sessVars, dispVars, appVars, loadVars>>
nonFramVars == <<coreVars, chatVars, sessVars, dispVars, appVars, loadVars>>
nonSessVars == <<coreVars, chatVars, framVars, dispVars, appVars, loadVars>>
nonDispVars == <<coreVars, chatVars, framVars, sessVars, appVars, loadVars>>
nonAppVars == <<coreVars, chatVars, framVars, sessVars, dispVars, loadVars>>
nonLoadVars == <<coreVars, chatVars, framVars, sessVars, dispVars, appVars>>

vars == <<coreVars, chatVars, framVars, sessVars, dispVars, appVars, loadVars>>

(***************************************************************************)
(* Bounds of the model.                                                    *)
(***************************************************************************)
MaxItems == 2
MaxFrames == 2

None == <<>>
Some(x) == <<x>>

(***************************************************************************)
(* Header text.                                                            *)
(***************************************************************************)
LowerChar(c) ==
  CASE c = "A" -> "a" [] c = "D" -> "d" [] c = "E" -> "e" [] c = "I" -> "i"
    [] c = "M" -> "m" [] c = "N" -> "n" [] c = "O" -> "o" [] c = "R" -> "r"
    [] c = "S" -> "s" [] c = "T" -> "t" [] c = "U" -> "u" [] c = "V" -> "v"
    [] c = "X" -> "x"
    [] OTHER -> c

Lower(s) == [i \in 1..Len(s) |-> LowerChar(s[i])]

\* Python's `sub in s` for strings.
Contains(sub, s) ==
  \E i \in 0..(Len(s) - Len(sub)) : SubSeq(s, i + 1, i + Len(sub)) = sub

STR_EVENT_STREAM == <<"e","v","e","n","t","-","s","t","r","e","a","m">>
STR_AUDIO == <<"a","u","d","i","o">>

CT_JSON == <<"a","p","p","l","i","c","a","t","i","o","n","/","j","s","o","n">>
CT_SSE == <<"t","e","x","t","/","e","v","e","n","t","-","s","t","r","e","a","m">>
CT_SSE_UPPER == <<"T","e","x","t","/","E","V","E","N","T","-","S","t","r","e","a","m">>
CT_AUDIO == <<"a","u","d","i","o","/","m","p","3">>
CT_AUDIO_UPPER == <<"A","U","D","I","O","/","m","p","3">>
\* a content type that names both markers
CT_AUDIO_SSE == <<"a","u","d","i","o","/","e","v","e","n","t","-","s","t","r","e","a","m">>
CT_EVENT_ONLY == <<"t","e","x","t","/","e","v","e","n","t">>

(***************************************************************************)
(* JSON payloads.                                                          *)
(***************************************************************************)
JNull == [t |-> "null", v |-> <<>>]
JList(s) == [t |-> "list", v |-> s]
JDict(r) == [t |-> "dict", v |-> r]

\* The elements a list payload is made of; "bad" is an element the requested
\* record type rejects.
Items == {"a", "b", "bad"}

SeqsUpTo(S, n) == UNION {[1..k -> S] : k \in 0..n}

ListPayloads == {JList(s) : s \in SeqsUpTo(Items, MaxItems)}

ObjPayload == JDict([id |-> "c1"])
\* a payload that itself has a "data" key (the two-level envelope)
NestedPayload == JDict([data |-> JList(<<"a">>)])

Payloads == ListPayloads \cup {ObjPayload, NestedPayload}

(***************************************************************************)
(* aiagentplatformpy.exception is not part of the source tree; the set of  *)
(* known auth-failure identifiers is taken from the specification (4.5     *)
(* rule 2, "a fixed known set of auth-failure identifiers").               *)
(***************************************************************************)
AiAgentPlatform_PKCE_AUTH_ERROR_TYPE_ENUMS ==
  {"authorization_pending", "slow_down", "access_denied", "expired_token"}

(***************************************************************************)
(* Response bodies.  A JSON object is a function from the keys present to  *)
(* their values.                                                           *)
(***************************************************************************)
Codes == {-1, 0, 1, 2}
Msgs == {"", "m1"}
ErrorCodes == {"access_denied", "slow_down", "unknown_error"}
ErrorMessages == {"", "boom", "access_denied"}
DataFields == {"data", "result", "data.data"}
Casts == {"None", "Single", "List", "ListResponse"}
LogIds == {None, Some("log-1")}
StatusCodes == {200, 500}
Texts == {"<html>", ""}

Has(body, k) == k \in DOMAIN body

\* Python's dict.get(k), with None for a missing key.
Get(body, k) == IF Has(body, k) THEN body[k] ELSE JNull

MkBody(keys, code, msg, ec, em, data, res) ==
  [k \in keys |->
     CASE k = "code" -> code
       [] k = "msg" -> msg
       [] k = "error_code" -> ec
       [] k = "error_message" -> em
       [] k = "data" -> data
       [] k = "result" -> res
       [] k = "debug_url" -> "http://debug"
       [] k = "execute_id" -> "e1"
       [] k = "first_id" -> "f1"
       [] k = "last_id" -> "l1"
       [] k = "has_more" -> TRUE]

\* Bodies that exercise the error conventions: every combination of code,
\* msg, error_code and error_message, with and without a data field,
\* debug_url and first_id.
ErrorKeys == {"code", "msg", "error_code", "error_message", "data", "debug_url", "first_id"}

ErrorBodies ==
  {MkBody(keys, code, msg, ec, em, ObjPayload, ObjPayload) :
     keys \in SUBSET ErrorKeys, code \in Codes, msg \in Msgs,
     ec \in ErrorCodes, em \in ErrorMessages}

\* Bodies of the data envelope: no error field, any payload, every optional
\* envelope field independently present or absent.
EnvelopeKeys ==
  {"data", "result", "debug_url", "execute_id", "first_id", "has_more", "last_id"}

EnvelopeBodies ==
  {MkBody(keys \cup ok, 0, "", "", "", data, ObjPayload) :
     keys \in SUBSET EnvelopeKeys, ok \in {{}, {"code", "msg"}}, data \in Payloads}

Bodies == ErrorBodies \cup EnvelopeBodies

(***************************************************************************)
(* Responses.  headers.get(...) of an absent header is None (content-type  *)
(* defaults to the empty string).  The body is a JSON object or a text     *)
(* that json() rejects.                                                    *)
(***************************************************************************)
JsonBody(b) == [is_json |-> TRUE, json |-> b, text |-> "{..}"]
TextBody(t) == [is_json |-> FALSE, json |-> <<>>, text |-> t]

MkResponse(ct, logid, status, body) ==
  [content_type |-> ct, logid |-> logid, status_code |-> status, body |-> body]

\* The bodies carried by responses that are routed by content type alone: an
\* error envelope, a data envelope and a text that is not JSON.
RoutedBodies ==
  {JsonBody(MkBody({"code", "msg", "data"}, 1, "m1", "", "", ObjPayload, ObjPayload)),
   JsonBody(MkBody({"data"}, 0, "", "", "", ObjPayload, ObjPayload)),
   TextBody("<html>")}

\* The content types of the model by what they name, case ignored.
StreamContentTypes == {CT_SSE, CT_SSE_UPPER, CT_AUDIO_SSE}
AudioContentTypes == {CT_AUDIO, CT_AUDIO_UPPER}
ParsedContentTypes == {None, Some(<<>>), Some(CT_JSON), Some(CT_EVENT_ONLY)}

\* Responses whose content type names neither marker: the body is parsed.
\* Every body is sent as application/json; the sample bodies are also sent
\* with no content type, an empty one and one that names "event" only, and
\* with both status codes (status_code is read on the JSON-decode failure
\* path only).
ParsedResponses ==
  {MkResponse(Some(CT_JSON), logid, 200, JsonBody(b)) : logid \in LogIds, b \in Bodies}
  \cup
  {MkResponse(ct, logid, st, b) :
     ct \in ParsedContentTypes,
     logid \in LogIds, st \in StatusCodes,
     b \in RoutedBodies \cup {TextBody(t) : t \in Texts}}

StreamResponses ==
  {MkResponse(Some(ct), logid, 200, b) :
     ct \in StreamContentTypes, logid \in LogIds, b \in RoutedBodies}

AudioResponses ==
  {MkResponse(Some(ct), logid, 200, b) :
     ct \in AudioContentTypes, logid \in LogIds, b \in RoutedBodies}

(***************************************************************************)
(* Exceptions and return values.                                           *)
(***************************************************************************)
AiAgentPlatformAPIError(code, msg, logid) ==
  [kind |-> "ApiError", code |-> code, msg |-> msg, logid |-> logid]

AiAgentPlatformPKCEAuthError(type, logid) ==
  [kind |-> "AuthError", type |-> type, logid |-> logid]

KeyError(k) == [kind |-> "KeyError", key |-> k]
TypeError == [kind |-> "TypeError"]
ValidationError(item) == [kind |-> "ValidationError", item |-> item]

\* the tuple (code, msg, data) returned by _parse_requests_code_msg
Ret(code, msg, data) == [kind |-> "return", code |-> code, msg |-> msg, data |-> data]

ErrorKinds == {"ApiError", "AuthError", "KeyError", "TypeError", "ValidationError", "Exception"}

(***************************************************************************)
(* Requester._parse_requests_code_msg                                      *)
(***************************************************************************)
\* rule 4, the page descriptor: the dict literal reads first_id, has_more,
\* last_id and "data" in this order; a missing key raises KeyError.
PageDescriptor(body) ==
  IF ~Has(body, "has_more") THEN KeyError("has_more")
  ELSE IF ~Has(body, "last_id") THEN KeyError("last_id")
  ELSE IF ~Has(body, "data") THEN KeyError("data")
  ELSE Ret(Some(0), "",
           JDict([first_id |-> body["first_id"], has_more |-> body["has_more"],
                  last_id |-> body["last_id"], items |-> body["data"]]))

\* rule 4, the debug envelope: body.get(data_field), debug_url or "",
\* execute_id or None.
DebugEnvelope(body, data_field) ==
  Ret(Some(0), "",
      JDict([data |-> Get(body, data_field),
             debug_url |-> body["debug_url"],
             execute_id |-> IF Has(body, "execute_id") THEN Some(body["execute_id"]) ELSE None]))

\* rule 5: body["data"]["data"]
TwoLevel(body) ==
  IF ~Has(body, "data") THEN KeyError("data")
  ELSE IF body["data"].t # "dict" THEN TypeError
  ELSE IF "data" \notin DOMAIN body["data"].v THEN KeyError("data")
  ELSE Ret(Some(0), "", body["data"].v["data"])

\* Rule1 with the comparison off by one
Rule1_OffByOne(body) == Has(body, "code") /\ Has(body, "msg") /\ body["code"] > 1

\* the conditions of the rules; codes are integers, on which int() is the
\* identity
Rule1(body) == Has(body, "code") /\ Has(body, "msg") /\ body["code"] > 0

Rule2(body) ==
  Has(body, "error_code") /\ body["error_code"] \in AiAgentPlatform_PKCE_AUTH_ERROR_TYPE_ENUMS

Rule3(body) == Has(body, "error_message") /\ body["error_message"] # ""

Rule4(body, data_field) == Has(body, data_field) \/ Has(body, "debug_url")

\* the rules applied in order to a parsed body (request.py:436-467)
MapBody(body, data_field) ==
  IF Rule1(body)
    THEN Ret(Some(body["code"]), body["msg"], Get(body, data_field))
  ELSE IF Rule2(body)
    THEN Ret(None, body["error_code"], JNull)
  ELSE IF Rule3(body)
    THEN Ret(None, body["error_message"], JNull)
  ELSE IF Rule4(body, data_field)
    THEN IF Has(body, "first_id") THEN PageDescriptor(body)
         ELSE IF Has(body, "debug_url") THEN DebugEnvelope(body, data_field)
         ELSE Ret(Some(0), "", body[data_field])
  ELSE IF data_field = "data.data" THEN TwoLevel(body)
  ELSE Ret(Some(0), "", JDict(body))

\* response.json(): on a requests response the parsed body, or an exception
\* when the text is not JSON; on an aiohttp response json is a coroutine
\* function and the call, which is not awaited, returns a coroutine object
\* without reading the body
response_json(resp, is_async) ==
  IF is_async THEN [kind |-> "coroutine"]
  ELSE IF resp.body.is_json THEN [kind |-> "dict", json |-> resp.body.json]
  ELSE [kind |-> "raise"]

\* a coroutine object supports no "in" test: the first rule raises TypeError
parse_requests_code_msg(resp, data_field, is_async) ==
  LET body == response_json(resp, is_async)
  IN IF body.kind = "raise"
       THEN AiAgentPlatformAPIError(Some(resp.status_code), resp.body.text, resp.logid)
     ELSE IF body.kind = "coroutine" THEN TypeError
     ELSE MapBody(body.json, data_field)

(***************************************************************************)
(* Casting (request.py:407-420).  item_cast.model_validate(item) builds a  *)
(* record of the requested type from a valid item and raises on any other. *)
(***************************************************************************)
Valid(item) == item \in {"a", "b"}
model_validate(item) == [cls |-> "T", fields |-> item]

\* ValidateFrom that leaves invalid elements out instead of raising
RECURSIVE ValidateFrom_SkipInvalid(_, _, _)
ValidateFrom_SkipInvalid(items, i, acc) ==
  IF i > Len(items) THEN [kind |-> "items", items |-> acc]
  ELSE IF ~Valid(items[i]) THEN ValidateFrom_SkipInvalid(items, i + 1, acc)
  ELSE ValidateFrom_SkipInvalid(items, i + 1, Append(acc, model_validate(items[i])))

\* [item_cast.model_validate(item) for item in data], left to right: the
\* first invalid element raises and the list built so far is dropped.
RECURSIVE ValidateFrom(_, _, _)
ValidateFrom(items, i, acc) ==
  IF i > Len(items) THEN [kind |-> "items", items |-> acc]
  ELSE IF ~Valid(items[i]) THEN ValidationError(items[i])
  ELSE ValidateFrom(items, i + 1, Append(acc, model_validate(items[i])))

\* ValidateAll that returns the valid elements of a list and drops the rest
ValidateAll_SkipInvalid(data) ==
  CASE data.t = "list" -> ValidateFrom_SkipInvalid(data.v, 1, <<>>)
    [] data.t = "dict" ->
         IF DOMAIN data.v = {} THEN [kind |-> "items", items |-> <<>>]
         ELSE ValidationError("key")
    [] OTHER -> TypeError

\* Iterating a list yields its elements, iterating a dict yields its keys
\* (strings, which no record type accepts), iterating None raises TypeError.
ValidateAll(data) ==
  CASE data.t = "list" -> ValidateFrom(data.v, 1, <<>>)
    [] data.t = "dict" ->
         IF DOMAIN data.v = {} THEN [kind |-> "items", items |-> <<>>]
         ELSE ValidationError("key")
    [] OTHER -> TypeError

CastResult(cast, data) ==
  IF cast = "List"
    THEN LET r == ValidateAll(data)
         IN IF r.kind = "items" THEN [kind |-> "list", items |-> r.items] ELSE r
  ELSE IF cast = "ListResponse"
    THEN LET r == ValidateAll(data)
         IN IF r.kind = "items" THEN [kind |-> "ListResponse", items |-> r.items] ELSE r
  ELSE IF cast = "None" THEN [kind |-> "none"]
  ELSE [kind |-> "value", data |-> data]

(***************************************************************************)
(* Requester._parse_response                                               *)
(***************************************************************************)
\* resp_content_type without lower()
resp_content_type_CaseSensitive(resp) ==
  IF resp.content_type = None THEN <<>> ELSE resp.content_type[1]

\* response.headers.get("content-type", "").lower()
resp_content_type(resp) ==
  Lower(IF resp.content_type = None THEN <<>> ELSE resp.content_type[1])

\* IsFailureCode that takes 0 for a failure
IsFailureCode_ZeroFails(code) == code # None /\ code[1] >= 0

\* `code is not None and code > 0`
IsFailureCode(code) == code # None /\ code[1] > 0

\* RaiseForMsg without the auth-failure branch
RaiseForMsg_AlwaysApi(code, msg, logid) == AiAgentPlatformAPIError(code, msg, logid)

\* what is raised for a tuple without a code (request.py:404-406)
RaiseForMsg(code, msg, logid) ==
  IF msg \in AiAgentPlatform_PKCE_AUTH_ERROR_TYPE_ENUMS
    THEN AiAgentPlatformPKCEAuthError(msg, logid)
    ELSE AiAgentPlatformAPIError(code, msg, logid)

\* request.py:397-420, the structured-body path
ParseBody(resp, cast, data_field, is_async) ==
  LET r == parse_requests_code_msg(resp, data_field, is_async)
      logid == resp.logid
  IN IF r.kind # "return" THEN r
     ELSE IF IsFailureCode(r.code)
       THEN AiAgentPlatformAPIError(r.code, r.msg, logid)
     ELSE IF r.code = None /\ r.msg # ""
       THEN RaiseForMsg(r.code, r.msg, logid)
     ELSE CastResult(cast, r.data)

parse_response(resp, cast, data_field, is_async) ==
  LET ct == resp_content_type(resp)
  IN IF Contains(STR_EVENT_STREAM, ct)
       THEN [kind |-> IF is_async THEN "AsyncIteratorHTTPResponse"
                      ELSE "IteratorHTTPResponse"]
     ELSE IF ct # <<>> /\ Contains(STR_AUDIO, ct)
       THEN [kind |-> "FileHTTPResponse"]
     ELSE ParseBody(resp, cast, data_field, is_async)

(***************************************************************************)
(* _chat_stream_handler (chat/__init__.py:357-386).  A frame is the dict   *)
(* {"event": ..., "data:data": event_data}; event_data is a JSON document  *)
(* with its own "event" discriminator.                                     *)
(***************************************************************************)
ERROR == "error"
DONE == "message_end"
MessageEvents == {"message", DONE}
ChatEvents == {"message_start", "message_output_start", "message_cost", "message_output_end"}
KnowledgeEvents == {"knowledge_retrieve_end", "knowledge_retrieve"}

ChatEvent(event, chat, message, knowledge, raw) ==
  [kind |-> "ChatEvent", event |-> event, chat |-> chat, message |-> message,
   knowledge |-> knowledge, raw_response |-> raw]

\* the fields a model class requires: Chat and Knowledge declare id, task_id
\* and conversation_id without defaults, every field of Message has one
RequiredIds == {"Chat", "Knowledge"}

\* pydantic's model_validate_json: the record, or a ValidationError when a
\* required field is missing from the payload
model_validate_json(cls, event_data) ==
  IF cls \in RequiredIds /\ ~event_data.has_ids
    THEN [kind |-> "ValidationError", cls |-> cls]
  ELSE [kind |-> "record", cls |-> cls, json |-> event_data]

\* the event built from a validated record, or the validation's exception
Validated(rec, event) == IF rec.kind = "ValidationError" THEN rec ELSE event

chat_stream_handler_ErrorIsEvent(data, raw_response) ==
  LET event_data == data.data
      ev == event_data.event
  IN IF ev \in MessageEvents
       THEN LET rec == model_validate_json("Message", event_data)
            IN Validated(rec, ChatEvent(ev, None, Some(rec), None, raw_response))
     ELSE IF ev \in ChatEvents
       THEN LET rec == model_validate_json("Chat", event_data)
            IN Validated(rec, ChatEvent(ev, Some(rec), None, None, raw_response))
     ELSE IF ev \in KnowledgeEvents
       THEN LET rec == model_validate_json("Knowledge", event_data)
            IN Validated(rec, ChatEvent(ev, None, None, Some(rec), raw_response))
     ELSE ChatEvent(ev, None, None, None, raw_response)

chat_stream_handler_UnknownRaises(data, raw_response) ==
  LET event_data == data.data
      ev == event_data.event
  IN IF ev = ERROR
       THEN [kind |-> "Exception", msg |-> <<"error event: ", event_data>>]
     ELSE IF ev \in MessageEvents
       THEN LET rec == model_validate_json("Message", event_data)
            IN Validated(rec, ChatEvent(ev, None, Some(rec), None, raw_response))
     ELSE IF ev \in ChatEvents
       THEN LET rec == model_validate_json("Chat", event_data)
            IN Validated(rec, ChatEvent(ev, Some(rec), None, None, raw_response))
     ELSE IF ev \in KnowledgeEvents
       THEN LET rec == model_validate_json("Knowledge", event_data)
            IN Validated(rec, ChatEvent(ev, None, None, Some(rec), raw_response))
     ELSE [kind |-> "ValueError", msg |-> <<"invalid chat.event: ", ev>>]

chat_stream_handler_OuterEvent(data, raw_response) ==
  LET event_data == data.data
      ev == data.event
  IN IF ev = ERROR
       THEN [kind |-> "Exception", msg |-> <<"error event: ", event_data>>]
     ELSE IF ev \in MessageEvents
       THEN LET rec == model_validate_json("Message", event_data)
            IN Validated(rec, ChatEvent(ev, None, Some(rec), None, raw_response))
     ELSE IF ev \in ChatEvents
       THEN LET rec == model_validate_json("Chat", event_data)
            IN Validated(rec, ChatEvent(ev, Some(rec), None, None, raw_response))
     ELSE IF ev \in KnowledgeEvents
       THEN LET rec == model_validate_json("Knowledge", event_data)
            IN Validated(rec, ChatEvent(ev, None, None, Some(rec), raw_response))
     ELSE ChatEvent(ev, None, None, None, raw_response)

chat_stream_handler_NoRawResponse(data, raw_response) ==
  LET event_data == data.data
      ev == event_data.event
  IN IF ev = ERROR
       THEN [kind |-> "Exception", msg |-> <<"error event: ", event_data>>]
     ELSE IF ev \in MessageEvents
       THEN ChatEvent(ev, None, Some(model_validate_json("Message", event_data)), None, None)
     ELSE IF ev \in ChatEvents
       THEN LET rec == model_validate_json("Chat", event_data)
            IN Validated(rec, ChatEvent(ev, Some(rec), None, None, None))
     ELSE IF ev \in KnowledgeEvents
       THEN LET rec == model_validate_json("Knowledge", event_data)
            IN Validated(rec, ChatEvent(ev, None, None, Some(rec), None))
     ELSE ChatEvent(ev, None, None, None, None)

chat_stream_handler(data, raw_response) ==
  LET event_data == data.data
      ev == event_data.event
  IN IF ev = ERROR
       THEN [kind |-> "Exception", msg |-> <<"error event: ", event_data>>]
     ELSE IF ev \in MessageEvents
       THEN LET rec == model_validate_json("Message", event_data)
            IN Validated(rec, ChatEvent(ev, None, Some(rec), None, raw_response))
     ELSE IF ev \in ChatEvents
       THEN LET rec == model_validate_json("Chat", event_data)
            IN Validated(rec, ChatEvent(ev, Some(rec), None, None, raw_response))
     ELSE IF ev \in KnowledgeEvents
       THEN LET rec == model_validate_json("Knowledge", event_data)
            IN Validated(rec, ChatEvent(ev, None, None, Some(rec), raw_response))
     ELSE ChatEvent(ev, None, None, None, raw_response)

\* the inner events of the frames a server sends, one of each branch of the
\* handler and one the handler does not know
InnerEvents == {ERROR, "message", DONE, "message_start", "knowledge_retrieve", "custom"}

MkFrame(e, has_ids) ==
  [event |-> "text", data |-> [event |-> e, answer |-> "hi", has_ids |-> has_ids]]

Frames == {MkFrame(e, TRUE) : e \in InnerEvents}

FrameSeqs == SeqsUpTo(Frames, MaxFrames)

(***************************************************************************)
(* The state machine: one call of Requester.request / arequest.            *)
(***************************************************************************)
NoResult == [kind |-> "pending"]
NoError == [kind |-> "noerror"]
NoRequest == [cast |-> "None", data_field |-> "data", is_async |-> FALSE]
NoResponse == MkResponse(None, None, 0, TextBody(""))

NoClient == [mode |-> "sync", api |-> "create"]
NoOutcome == [kind |-> "pending"]

\* no chat call is in progress
ChatIdle ==
  /\ client = NoClient
  /\ held = FALSE
  /\ released = 0
  /\ session = "none"
  /\ pending = NoError
  /\ outcome = NoOutcome

EmptyFrame == [event |-> None, data |-> None]

\* no body is being framed
FramIdle ==
  /\ wire = <<>>
  /\ fmode = "sync"
  /\ fed = 0
  /\ lpending = None
  /\ cur = EmptyFrame
  /\ fout = <<>>
  /\ fstate = "done"

NumCalls == 3
CallIds == 1..NumCalls

NoCall == [pc |-> "idle", api |-> "create", broken |-> FALSE]

\* no async call has been made
SessIdle ==
  /\ a_session = 0
  /\ sess = [i \in CallIds |-> "new"]
  /\ closes = [i \in CallIds |-> 0]
  /\ calls = [c \in CallIds |-> NoCall]

NoAuth == [kind |-> "None", ok |-> FALSE]
NoArgs ==
  [entry |-> "request", method |-> <<>>, body |-> None, files |-> None, stream |-> FALSE,
   cast |-> "None", data_field |-> "data"]

HTTPRequest(method, body, files, stream, data_field, cast, signed) ==
  [kind |-> "HTTPRequest", method |-> method, json_body |-> body, files |-> files,
   stream |-> stream, data_field |-> data_field, cast |-> cast, signed |-> signed]

NoDescriptor == HTTPRequest(<<>>, None, None, FALSE, "data", "None", FALSE)

\* no request has been built
DispIdle ==
  /\ auth = NoAuth
  /\ dargs = NoArgs
  /\ dreq = NoDescriptor
  /\ sent = <<>>
  /\ dpc = "idle"
  /\ net = <<>>
  /\ dresult = NoResult

\* MultiRoundChatAPI.__init__: no conversation id, an empty history
AppIdle ==
  /\ conversation_id = None
  /\ chat_history = <<>>
  /\ sends = <<>>
  /\ apc = "idle"
  /\ work = <<>>
  /\ idx = 0
  /\ responses = <<>>
  /\ extracted_data = <<>>
  /\ failed_queries = <<>>

\* no loader has been called
LoadIdle ==
  /\ loader = "txt"
  /\ column = <<>>
  /\ queries = <<>>
  /\ qpc = "idle"

\* no call of request / arequest has been made
CoreIdle ==
  /\ pc = "idle"
  /\ request = NoRequest
  /\ response = NoResponse
  /\ result = NoResult
  /\ frames = <<>>
  /\ pos = 0
  /\ events = <<>>
  /\ stream_error = NoError

Init ==
  /\ CoreIdle
  /\ ChatIdle
  /\ FramIdle
  /\ SessIdle
  /\ DispIdle
  /\ AppIdle
  /\ LoadIdle

\* Requester.request / arequest up to the dispatch: cast and data_field go
\* into the descriptor; send passes is_async = False, asend is_async = True.
Request ==
  /\ pc = "idle"
  /\ \E cast \in Casts, data_field \in DataFields, is_async \in BOOLEAN :
       request' = [cast |-> cast, data_field |-> data_field, is_async |-> is_async]
  /\ pc' = "awaiting"
  /\ UNCHANGED <<response, result, frames, pos, events, stream_error>>
  /\ UNCHANGED nonCoreVars

\* The transport returns a response whose body is parsed.
RespondParsed ==
  /\ pc = "awaiting"
  /\ response' \in ParsedResponses
  /\ pc' = "received"
  /\ UNCHANGED <<request, result, frames, pos, events, stream_error>>
  /\ UNCHANGED nonCoreVars

\* The transport returns an event-stream response; its body carries frames.
RespondStream ==
  /\ pc = "awaiting"
  /\ response' \in StreamResponses
  /\ frames' \in FrameSeqs
  /\ pc' = "received"
  /\ UNCHANGED <<request, result, pos, events, stream_error>>
  /\ UNCHANGED nonCoreVars

\* The transport returns an audio response.
RespondAudio ==
  /\ pc = "awaiting"
  /\ response' \in AudioResponses
  /\ pc' = "received"
  /\ UNCHANGED <<request, result, frames, pos, events, stream_error>>
  /\ UNCHANGED nonCoreVars

\* Requester._parse_response on the response received.
ParseResponse ==
  /\ pc = "received"
  /\ result' = parse_response(response, request.cast, request.data_field, request.is_async)
  /\ pc' = IF result'.kind \in ErrorKinds THEN "raised"
           ELSE IF result'.kind \in {"IteratorHTTPResponse", "AsyncIteratorHTTPResponse"}
             THEN "streaming"
           ELSE "returned"
  /\ UNCHANGED <<request, response, frames, pos, events, stream_error>>
  /\ UNCHANGED nonCoreVars

\* One step of iterating the stream: the next frame goes through the
\* handler; an event is yielded or the handler's exception ends the stream.
StreamNext ==
  /\ pc = "streaming"
  /\ pos < Len(frames)
  /\ LET r == chat_stream_handler(frames[pos + 1], response)
     IN IF r.kind # "ChatEvent"
          THEN /\ stream_error' = r
               /\ pc' = "stream_raised"
               /\ UNCHANGED events
          ELSE /\ events' = Append(events, r)
               /\ UNCHANGED <<pc, stream_error>>
  /\ pos' = pos + 1
  /\ UNCHANGED <<request, response, result, frames>>
  /\ UNCHANGED nonCoreVars

\* The line source is exhausted: iteration stops.
StreamEnd ==
  /\ pc = "streaming"
  /\ pos = Len(frames)
  /\ pc' = "stream_end"
  /\ UNCHANGED <<request, response, result, frames, pos, events, stream_error>>
  /\ UNCHANGED nonCoreVars

Next ==
  \/ Request
  \/ RespondParsed
  \/ RespondStream
  \/ RespondAudio
  \/ ParseResponse
  \/ StreamNext
  \/ StreamEnd

Spec == Init /\ [][Next]_vars

(***************************************************************************)
(* The claims.  The cases are stated on the response itself (the keys and  *)
(* values of its body, its content type), not through the operators of     *)
(* the mapper.                                                             *)
(***************************************************************************)
\* _parse_response has returned or raised
Parsed == pc \notin {"idle", "awaiting", "received"}

\* ... on a body that json() accepted, of a response routed to the mapper
JsonCall ==
  /\ Parsed
  /\ response.content_type \in ParsedContentTypes
  /\ response.body.is_json
  /\ response_json(response, request.is_async).kind = "dict"

Body == response.body.json

HasCodeError == Has(Body, "code") /\ Has(Body, "msg") /\ Body["code"] > 0
HasAuthError ==
  /\ Has(Body, "error_code")
  /\ Body["error_code"] \in {"authorization_pending", "slow_down", "access_denied", "expired_token"}
HasMessageError == Has(Body, "error_message") /\ Body["error_message"] # ""

IsApiError(code, msg) ==
  /\ pc = "raised"
  /\ result.kind = "ApiError"
  /\ result.code = code
  /\ result.msg = msg

----------------------------------------------------------------------------
\* C1 as stated: every JSON body with code > 0 raises ApiError with that
\* code (and the body's msg when there is one), whichever other fields,
\* msg included, are present or absent.
C1_AnyPositiveCodeRaises ==
  (JsonCall /\ Has(Body, "code") /\ Body["code"] > 0)
    => /\ pc = "raised"
       /\ result.kind = "ApiError"
       /\ result.code = Some(Body["code"])
       /\ Has(Body, "msg") => result.msg = Body["msg"]

\* C1 (amended): every JSON body with a code > 0 and a msg field raises
\* ApiError with exactly that code, that msg and the header's trace id,
\* whichever of error_code, error_message, the data field, debug_url and
\* first_id are present.
C1_PositiveCodeWithMsgRaises ==
  (JsonCall /\ Has(Body, "code") /\ Has(Body, "msg") /\ Body["code"] > 0)
    => /\ IsApiError(Some(Body["code"]), Body["msg"])
       /\ result.logid = response.logid

C1_Witness ==
  /\ JsonCall
  /\ {"code", "msg", "error_code", "error_message", "data", "debug_url", "first_id"}
       \subseteq DOMAIN Body
  /\ Body["code"] = 2
  /\ Body["error_code"] = "access_denied"
  /\ Body["error_message"] = "boom"
  /\ IsApiError(Some(2), Body["msg"])

----------------------------------------------------------------------------
\* C2: responses are routed by the lower-cased content type, first match
\* wins: one naming event-stream gives a stream handle whatever the body and
\* the requested cast are, otherwise one naming audio gives a
\* FileHTTPResponse whatever the body is, and every other response is
\* parsed: a body that is not JSON fails with the status code, a JSON body
\* never gives a handle.
C2_RoutingByContentType ==
  Parsed =>
    /\ (response.content_type # None /\ response.content_type[1] \in StreamContentTypes)
         => result.kind = IF request.is_async THEN "AsyncIteratorHTTPResponse"
                          ELSE "IteratorHTTPResponse"
    /\ (response.content_type # None /\ response.content_type[1] \in AudioContentTypes)
         => result.kind = "FileHTTPResponse"
    /\ response.content_type \in ParsedContentTypes
         => /\ result.kind \notin
                 {"IteratorHTTPResponse", "AsyncIteratorHTTPResponse", "FileHTTPResponse"}
            /\ response_json(response, request.is_async).kind = "raise"
                 => IsApiError(Some(response.status_code), response.body.text)

C2_Witness ==
  /\ pc = "streaming"
  /\ response.content_type = Some(CT_SSE_UPPER)
  /\ ~response.body.is_json
  /\ request.cast = "List"
  /\ result.kind = "IteratorHTTPResponse"

----------------------------------------------------------------------------
\* C3: a JSON body without a code error whose error_code is a known
\* auth-failure identifier raises AuthError of exactly that type with the
\* header's trace id; nothing is returned.
C3_KnownErrorCodeRaisesAuthError ==
  (JsonCall /\ ~HasCodeError /\ HasAuthError)
    => /\ pc = "raised"
       /\ result.kind = "AuthError"
       /\ result.type = Body["error_code"]
       /\ result.logid = response.logid

C3_Witness ==
  /\ JsonCall
  /\ ~HasCodeError
  /\ {"error_code", "error_message", "data"} \subseteq DOMAIN Body
  /\ Body["error_code"] = "slow_down"
  /\ response.logid = Some("log-1")
  /\ pc = "raised"
  /\ result.kind = "AuthError"
  /\ result.type = "slow_down"

----------------------------------------------------------------------------
\* C4 as stated: a JSON body to which neither the code rule nor the
\* error_code rule applies and whose error_message is not empty raises
\* ApiError without a code and with that message, whatever the text is.
C4_ErrorMessageRaisesApiError ==
  (JsonCall /\ ~HasCodeError /\ ~HasAuthError /\ HasMessageError)
    => IsApiError(None, Body["error_message"])

----------------------------------------------------------------------------
\* C5 as stated: the first applicable error rule alone decides: a body with
\* an error rule raises the error of the lowest-numbered applicable rule
\* (1: ApiError with code and msg, 2: AuthError of the error_code, 3:
\* ApiError without code with the error_message) and returns no payload,
\* also when it contains the requested data field.
C5_FirstApplicableRuleDecides ==
  JsonCall =>
    /\ HasCodeError => IsApiError(Some(Body["code"]), Body["msg"])
    /\ (~HasCodeError /\ HasAuthError)
         => (pc = "raised" /\ result.kind = "AuthError" /\ result.type = Body["error_code"])
    /\ (~HasCodeError /\ ~HasAuthError /\ HasMessageError)
         => IsApiError(None, Body["error_message"])

----------------------------------------------------------------------------
NoErrorRule == ~HasCodeError /\ ~HasAuthError /\ ~HasMessageError

\* C6 as stated: a body without an error rule that contains the requested
\* data field or debug_url returns, for a single-record request, the page
\* descriptor if it contains first_id, else the debug envelope if it
\* contains debug_url, else body[data_field].
C6_SuccessPayload ==
  (/\ JsonCall
   /\ NoErrorRule
   /\ Has(Body, request.data_field) \/ Has(Body, "debug_url")
   /\ request.cast = "Single")
    => /\ pc = "returned"
       /\ result.kind = "value"
       /\ IF Has(Body, "first_id")
            THEN /\ result.data.t = "dict"
                 /\ DOMAIN result.data.v = {"first_id", "has_more", "last_id", "items"}
                 /\ result.data.v.first_id = Body["first_id"]
                 /\ result.data.v.has_more = Body["has_more"]
                 /\ result.data.v.last_id = Body["last_id"]
                 /\ result.data.v.items = Body["data"]
          ELSE IF Has(Body, "debug_url")
            THEN /\ result.data.t = "dict"
                 /\ result.data.v.debug_url = Body["debug_url"]
                 /\ Has(Body, request.data_field)
                      => result.data.v.data = Body[request.data_field]
          ELSE result.data = Body[request.data_field]

----------------------------------------------------------------------------
\* C7 as stated: a body of the data envelope, with the requested data field
\* and any of debug_url, first_id, has_more, last_id, never raises.
C7_EnvelopeNeverRaises ==
  (/\ JsonCall
   /\ Has(Body, request.data_field)
   /\ DOMAIN Body \subseteq
        {request.data_field, "debug_url", "first_id", "has_more", "last_id"}
   /\ request.cast \in {"Single", "None"})
    => pc = "returned"

----------------------------------------------------------------------------
\* _parse_response has returned or raised on a response routed to the
\* mapper, whose json() gave the body or failed
ParsedCall ==
  /\ Parsed
  /\ response.content_type \in ParsedContentTypes
  /\ response_json(response, request.is_async).kind \in {"dict", "raise"}

\* the tuple the mapper computed for this call
Computed == parse_requests_code_msg(response, request.data_field, request.is_async)

\* C8 as stated, on the calls in which the mapper returned its tuple or
\* json() failed: every failure is an ApiError or an AuthError, a computed
\* code of 0 gives a success result, and no ApiError carries code 0.
C8_EveryFailureIsApiOrAuthError ==
  (ParsedCall /\ (response.body.is_json => Computed.kind = "return"))
    => /\ pc = "raised" => result.kind \in {"ApiError", "AuthError"}
       /\ (response.body.is_json /\ Computed.code = Some(0)) => pc = "returned"
       /\ result.kind = "ApiError" => result.code # Some(0)

\* C8 (amended): a body with an error rule raises exactly one of ApiError
\* and AuthError, and only such a body does; when the mapper's computed code
\* is 0 neither is raised: the call returns its result unless a requested
\* list cast rejects the payload; no ApiError carries code 0.
C8_CodeZeroNeverAnApiError ==
  ParsedCall =>
    /\ (response.body.is_json /\ (HasCodeError \/ HasAuthError \/ HasMessageError))
         => (pc = "raised" /\ result.kind \in {"ApiError", "AuthError"})
    /\ (response.body.is_json /\ result.kind \in {"ApiError", "AuthError"})
         => (HasCodeError \/ HasAuthError \/ HasMessageError)
    /\ (response.body.is_json /\ Computed.kind = "return" /\ Computed.code = Some(0))
         => /\ result.kind \notin {"ApiError", "AuthError"}
            /\ pc = "raised"
                 => /\ request.cast \in {"List", "ListResponse"}
                    /\ result.kind \in {"ValidationError", "TypeError"}
    /\ result.kind = "ApiError" => result.code # Some(0)

C8_Witness ==
  /\ JsonCall
  /\ {"code", "msg", "data"} \subseteq DOMAIN Body
  /\ Body["code"] = 0
  /\ Body["msg"] = "m1"
  /\ request.cast = "Single"
  /\ request.data_field = "data"
  /\ pc = "returned"
  /\ result.kind = "value"

----------------------------------------------------------------------------
\* a call that asks for a list or a paged list and whose payload is the
\* list body[data_field]
ListCall ==
  /\ JsonCall
  /\ NoErrorRule
  /\ request.cast \in {"List", "ListResponse"}
  /\ Has(Body, request.data_field)
  /\ ~Has(Body, "first_id")
  /\ ~Has(Body, "debug_url")
  /\ Body[request.data_field].t = "list"

PayloadItems == Body[request.data_field].v

\* C9: a list or paged-list request casts every element of the payload in
\* order; one element that fails validation fails the whole call and no
\* list is returned; otherwise the list returned has the payload's length
\* and order.
C9_ListCastAllOrNothing ==
  ListCall =>
    IF \E i \in 1..Len(PayloadItems) : PayloadItems[i] = "bad"
      THEN pc = "raised" /\ result.kind = "ValidationError"
      ELSE /\ pc = "returned"
           /\ result.kind = IF request.cast = "List" THEN "list" ELSE "ListResponse"
           /\ Len(result.items) = Len(PayloadItems)
           /\ \A i \in 1..Len(PayloadItems) :
                result.items[i] = [cls |-> "T", fields |-> PayloadItems[i]]

C9_Witness ==
  /\ ListCall
  /\ request.cast = "List"
  /\ PayloadItems = <<"a", "bad">>
  /\ pc = "raised"
  /\ result.kind = "ValidationError"

----------------------------------------------------------------------------
\* the trace id an exception carries, None when it has none
TraceOf(e) == IF "logid" \in DOMAIN e THEN e.logid ELSE None

\* C10 as stated: every ApiError and AuthError raised by _parse_response,
\* the JSON-decode failure included, and the exception that an "error"
\* event raises inside a stream carry the trace id of the response header.
C10_EveryErrorCarriesTraceId ==
  /\ (pc = "raised" /\ result.kind \in {"ApiError", "AuthError"})
       => TraceOf(result) = response.logid
  /\ pc = "stream_raised" => TraceOf(stream_error) = response.logid

(***************************************************************************)
(* One call of the chat client: ChatClient.create / stream and             *)
(* AsyncChatClient.create / stream (chat/__init__.py:414-480, 724-809),    *)
(* through _create, Requester.request / arequest and the stream that       *)
(* _create builds on the response.                                         *)
(***************************************************************************)
MaxChatFrames == 3

\* every event type the handler names, one it does not know, and payloads
\* without the id fields that Chat and Knowledge require
\* a frame whose own event field says "error" while its payload is a message
OuterErrorFrame == [event |-> ERROR, data |-> [event |-> "message", answer |-> "hi", has_ids |-> TRUE]]

ChatFrames ==
  {MkFrame(e, TRUE) :
     e \in (ChatEvents \cup KnowledgeEvents \cup {DONE, ERROR})}
  \cup {MkFrame(e, FALSE) : e \in {"message", "message_start", "knowledge_retrieve", "custom"}}
  \cup {OuterErrorFrame}

ChatFrameSeqs == SeqsUpTo(ChatFrames, MaxChatFrames)

\* what the platform answers a chat call with: an event stream, or a JSON
\* body (an error envelope, an authorization error, a data envelope)
ChatStreamResponses ==
  {MkResponse(Some(CT_SSE), Some("log-1"), 200, TextBody(""))}

ChatJsonResponses ==
  {MkResponse(Some(CT_JSON), Some("log-1"), 200, JsonBody(b)) :
     b \in {MkBody({"code", "msg"}, 1, "m1", "", "", ObjPayload, ObjPayload),
            MkBody({"error_code", "error_message"}, 0, "", "access_denied", "e1",
                   ObjPayload, ObjPayload),
            MkBody({"code", "msg", "data"}, 0, "", "", "", ObjPayload, ObjPayload)}}

StreamHandles == {"IteratorHTTPResponse", "AsyncIteratorHTTPResponse"}

\* the connection goes back to the pool, once
Release ==
  /\ held' = FALSE
  /\ released' = IF held THEN released + 1 ELSE released

InitChat ==
  /\ CoreIdle
  /\ ChatIdle
  /\ FramIdle
  /\ SessIdle
  /\ DispIdle
  /\ AppIdle
  /\ LoadIdle

\* create() / stream() is entered: the async client opens its session, and
\* _create calls request / arequest with cast Chat (create) or None (stream).
ChatCall ==
  /\ pc = "idle"
  /\ \E mode \in {"sync", "async"}, api \in {"create", "stream"} :
       /\ client' = [mode |-> mode, api |-> api]
       /\ request' = [cast |-> IF api = "stream" THEN "None" ELSE "Single",
                      data_field |-> "data", is_async |-> (mode = "async")]
       /\ session' = IF mode = "async" THEN "open" ELSE "none"
  /\ pc' = "awaiting"
  /\ UNCHANGED <<response, result, frames, pos, events, stream_error>>
  /\ UNCHANGED <<held, released, pending, outcome>>
  /\ UNCHANGED nonChatVars

\* The transport call raises (no response): the exception leaves send / asend.
ChatTransportFails ==
  /\ pc = "awaiting"
  /\ pending' = [kind |-> "ConnectionError"]
  /\ pc' = "unwind"
  /\ UNCHANGED <<request, response, result, frames, pos, events, stream_error>>
  /\ UNCHANGED <<client, held, released, session, outcome>>
  /\ UNCHANGED nonChatVars

\* The transport returns an event stream.  With stream=False (the blocking
\* create) the transport has read the body and given the connection back.
ChatRespondStream ==
  /\ pc = "awaiting"
  /\ response' \in ChatStreamResponses
  /\ frames' \in ChatFrameSeqs
  /\ IF client.mode = "sync" /\ client.api = "create"
       THEN held' = FALSE /\ released' = 1
       ELSE held' = TRUE /\ UNCHANGED released
  /\ pc' = "received"
  /\ UNCHANGED <<request, result, pos, events, stream_error>>
  /\ UNCHANGED <<client, session, pending, outcome>>
  /\ UNCHANGED nonChatVars

\* The transport returns a JSON body.
ChatRespondJson ==
  /\ pc = "awaiting"
  /\ response' \in ChatJsonResponses
  /\ IF client.mode = "sync" /\ client.api = "create"
       THEN held' = FALSE /\ released' = 1
       ELSE held' = TRUE /\ UNCHANGED released
  /\ pc' = "received"
  /\ UNCHANGED <<request, result, frames, pos, events, stream_error>>
  /\ UNCHANGED <<client, session, pending, outcome>>
  /\ UNCHANGED nonChatVars

\* _parse_response, then _create's Stream(resp._raw_response, resp.data, ...):
\* a stream handle becomes the stream; anything else has no _raw_response.
\* Parsing a body reads it to its end, which gives the connection back.
ChatParse ==
  /\ pc = "received"
  /\ result' = parse_response(response, request.cast, request.data_field, request.is_async)
  /\ IF result'.kind \in StreamHandles
       THEN /\ pc' = "streaming"
            /\ UNCHANGED <<pending, held, released>>
       ELSE /\ pc' = "unwind"
            /\ pending' = IF result'.kind \in ErrorKinds THEN result'
                          ELSE [kind |-> "AttributeError"]
            /\ Release
  /\ UNCHANGED <<request, response, frames, pos, events, stream_error>>
  /\ UNCHANGED <<client, session, outcome>>
  /\ UNCHANGED nonChatVars

\* create that returns at the first event carrying a message record
create_returns_AnyMessage(api, ev) == api = "create" /\ ev.message # None

\* the body of create's loop: `if i.event == ChatEventType.DONE: return
\* i.message`; stream() hands the events to its caller and returns none
create_returns(api, ev) == api = "create" /\ ev.event = DONE

\* One step of iterating the stream.  The handler's exception ends the
\* stream and propagates to whoever iterates; create() returns the message
\* of the DONE event and stops iterating.
ChatStreamNext ==
  /\ pc = "streaming"
  /\ pos < Len(frames)
  /\ LET r == chat_stream_handler(frames[pos + 1], response)
     IN IF r.kind # "ChatEvent"
          THEN /\ stream_error' = r
               /\ pending' = r
               /\ pc' = "unwind"
               /\ Release
               /\ UNCHANGED <<events, outcome>>
          ELSE /\ events' = Append(events, r)
               /\ IF create_returns(client.api, r)
                    THEN /\ outcome' = [kind |-> "returned", value |-> r.message]
                         /\ pc' = "exit"
                    ELSE UNCHANGED <<outcome, pc>>
               /\ UNCHANGED <<stream_error, pending, held, released>>
  /\ pos' = pos + 1
  /\ UNCHANGED <<request, response, result, frames>>
  /\ UNCHANGED <<client, session>>
  /\ UNCHANGED nonChatVars

\* The stream is exhausted: the body was read to its end.  create() falls
\* off its loop and returns None.
ChatStreamEnd ==
  /\ pc = "streaming"
  /\ pos = Len(frames)
  /\ Release
  /\ outcome' = IF client.api = "create" THEN [kind |-> "returned", value |-> None]
                ELSE outcome
  /\ pc' = "exit"
  /\ UNCHANGED <<request, response, result, frames, pos, events, stream_error>>
  /\ UNCHANGED <<client, session, pending>>
  /\ UNCHANGED nonChatVars

\* The caller of stream() leaves the with block before the stream is
\* exhausted.
ChatAbandon ==
  /\ pc = "streaming"
  /\ client.api = "stream"
  /\ pos < Len(frames)
  /\ pc' = "exit"
  /\ UNCHANGED <<request, response, result, frames, pos, events, stream_error>>
  /\ UNCHANGED chatVars
  /\ UNCHANGED nonChatVars

\* what the caller sees when an exception reaches the end of the call:
\* the exception itself, except in AsyncChatClient.stream, whose bare
\* "except: pass" catches it.  Caught before the yield, the generator ends
\* without yielding and asynccontextmanager raises RuntimeError; caught at
\* the yield, the context manager exits as if the exception were handled.
Unwound(cl, res, exc) ==
  IF cl.mode = "async" /\ cl.api = "stream"
    THEN IF res.kind \in StreamHandles
           THEN [kind |-> "suppressed"]
         ELSE [kind |-> "raised", exc |-> [kind |-> "RuntimeError"]]
  ELSE [kind |-> "raised", exc |-> exc]

\* The call ends.  The async client's finally closes the session, which
\* closes the connection it still holds; the blocking client does nothing.
ChatFinish ==
  /\ pc \in {"unwind", "exit"}
  /\ IF client.mode = "async"
       THEN session' = "closed" /\ Release
       ELSE UNCHANGED <<session, held, released>>
  /\ outcome' = IF pc = "unwind" THEN Unwound(client, result, pending)
                ELSE IF client.api = "stream" THEN [kind |-> "completed"]
                ELSE outcome
  /\ pc' = "done"
  /\ UNCHANGED <<request, response, result, frames, pos, events, stream_error>>
  /\ UNCHANGED <<client, pending>>
  /\ UNCHANGED nonChatVars

NextChat ==
  \/ ChatCall
  \/ ChatTransportFails
  \/ ChatRespondStream
  \/ ChatRespondJson
  \/ ChatParse
  \/ ChatStreamNext
  \/ ChatStreamEnd
  \/ ChatAbandon
  \/ ChatFinish

SpecChat == InitChat /\ [][NextChat]_vars

(***************************************************************************)
(* Claims on the chat stream.  events[i] is stated against frames[i], the  *)
(* frame as it was received.                                               *)
(***************************************************************************)
Inner(i) == frames[i].data.event

\* the payload of frame i has what the record class of its event requires
PayloadValid(i) ==
  Inner(i) \in {"message_start", "message_output_start", "message_cost",
                "message_output_end", "knowledge_retrieve", "knowledge_retrieve_end"}
    => frames[i].data.has_ids

Populated(ev) == {f \in {"chat", "message", "knowledge"} : ev[f] # None}

\* C11: the event yielded for a frame has the frame's inner event as its type
\* and, for the eight known events, exactly the record that event selects
\* (message / chat / knowledge), parsed from the frame's payload; a known
\* frame with a valid payload that was consumed did yield its event.
C11_VariantByInnerEvent ==
  /\ \A i \in 1..Len(events) :
       LET ev == events[i]
       IN /\ ev.event = Inner(i)
          /\ Inner(i) \in {"message", "message_end"} =>
               /\ Populated(ev) = {"message"}
               /\ ev.message = Some([kind |-> "record", cls |-> "Message",
                                     json |-> frames[i].data])
          /\ Inner(i) \in {"message_start", "message_output_start", "message_cost",
                           "message_output_end"} =>
               /\ Populated(ev) = {"chat"}
               /\ ev.chat = Some([kind |-> "record", cls |-> "Chat",
                                  json |-> frames[i].data])
          /\ Inner(i) \in {"knowledge_retrieve", "knowledge_retrieve_end"} =>
               /\ Populated(ev) = {"knowledge"}
               /\ ev.knowledge = Some([kind |-> "record", cls |-> "Knowledge",
                                       json |-> frames[i].data])
  /\ \A i \in 1..pos :
       (\A j \in 1..i : Inner(j) # "error" /\ PayloadValid(j)) => Len(events) >= i

\* a frame whose outer event is "error" and inner event "message" was yielded
\* as a message, and a chat frame after it as a chat
C11_Witness ==
  /\ Len(events) = 2
  /\ frames[1].event = "error"
  /\ events[1].message # None
  /\ events[2].chat # None

\* frame k is the first frame that is an error frame, and every frame before
\* it decodes
FirstError(k) ==
  /\ k \in 1..Len(frames)
  /\ Inner(k) = "error"
  /\ \A j \in 1..(k - 1) : Inner(j) # "error" /\ PayloadValid(j)

\* C12: once the error frame has been read, the stream has ended with the
\* handler's exception: nothing was yielded for that frame, the events of
\* the frames before it were yielded in order, and in no later state has a
\* further frame been read or a further event been yielded.
C12_ErrorFrameHalts ==
  \A k \in 1..Len(frames) :
    (FirstError(k) /\ pos >= k) =>
      /\ pos = k
      /\ pc \in {"unwind", "done"}
      /\ stream_error.kind = "Exception"
      /\ Len(events) = k - 1
      /\ \A j \in 1..(k - 1) : events[j].event = Inner(j)

\* an error frame between two valid frames: the call is over, the first
\* frame's event was yielded and the third frame was never read
C12_Witness ==
  /\ Len(frames) = 3
  /\ Inner(1) = "message_start" /\ Inner(2) = "error" /\ Inner(3) = "message"
  /\ pc = "done"
  /\ pos = 2
  /\ Len(events) = 1

\* frame i carries an inner event the handler does not name
Unknown(i) ==
  Inner(i) \notin {"error", "message", "message_end", "message_start",
                   "message_output_start", "message_cost", "message_output_end",
                   "knowledge_retrieve", "knowledge_retrieve_end"}

\* frames 1..i hold no error frame and no payload that fails validation
DecodableUpTo(i) == \A j \in 1..i : Inner(j) # "error" /\ PayloadValid(j)

\* C13: a frame with an unknown inner event, read after frames that decode,
\* yields an event with that event string and none of the three records,
\* whatever its payload holds; it does not end the stream, and every frame
\* read after it that decodes has its event yielded at its own position.
C13_UnknownEventYielded ==
  \A i \in 1..pos :
    (Unknown(i) /\ DecodableUpTo(i - 1)) =>
      /\ Len(events) >= i
      /\ events[i].event = Inner(i)
      /\ Populated(events[i]) = {}
      /\ \A j \in (i + 1)..pos :
           DecodableUpTo(j) => (Len(events) >= j /\ events[j].event = Inner(j))

\* an unknown event without the id fields came first, and the two frames
\* after it were decoded
C13_Witness ==
  /\ Len(events) = 3
  /\ Unknown(1)
  /\ ~frames[1].data.has_ids
  /\ events[2].chat # None
  /\ events[3].message # None

\* the events yielded so far are those of the frames read so far, one for
\* one and in order, each with the stream's raw response
OneForOne ==
  /\ Len(events) = pos
  /\ \A i \in 1..pos :
       /\ events[i].event = Inner(i)
       /\ \A f \in Populated(events[i]) : events[i][f][1].json = frames[i].data
       /\ events[i].raw_response = response

\* C14 as stated: on every stream without an error frame the events are one
\* for one with the frames read.
C14_OneEventPerFrame ==
  (\A j \in 1..Len(frames) : Inner(j) # "error") => OneForOne

\* C14, amended: on every stream whose frames read so far hold no error frame
\* and no payload that fails validation, the events are one for one with
\* the frames read, in order, each with the stream's raw response.
C14_OneEventPerDecodableFrame ==
  DecodableUpTo(pos) => OneForOne

\* a stream of three different frames was read to its end by the caller of
\* stream() and gave three events
C14_Witness ==
  /\ pc = "done"
  /\ client.api = "stream"
  /\ Len(frames) = 3 /\ pos = 3
  /\ Inner(1) = "message_start" /\ Inner(2) = "message" /\ Inner(3) = "message_end"
  /\ Len(events) = 3
  /\ events[3].raw_response = response

(***************************************************************************)
(* From the bytes of an event-stream body to frames.  _parse_response      *)
(* hands the stream a line source: response.iter_lines() (blocking) or     *)
(* response.content.__aiter__() (async), request.py:388-392.  The bytes    *)
(* arrive in chunks whose boundaries the client does not choose.  The      *)
(* framing of lines into frames is the stream's, after spec 4.6.           *)
(* A byte is "E" (a line that starts with it is an event field), "D" (a    *)
(* data field) or the line feed.                                           *)
(***************************************************************************)
MaxBytes == 5

LF == "\n"
Bytes == {"E", "D", LF}
Wires == SeqsUpTo(Bytes, MaxBytes)

Last(q) == q[Len(q)]
Front(q) == SubSeq(q, 1, Len(q) - 1)

\* index of the first line feed of text, 0 when it has none
FirstLF(text) ==
  IF \E i \in 1..Len(text) : text[i] = LF
    THEN CHOOSE i \in 1..Len(text) : text[i] = LF /\ \A j \in 1..(i - 1) : text[j] # LF
  ELSE 0

\* bytes.splitlines(): the lines of text without their terminators; a text
\* that ends with a line feed has no empty last line
RECURSIVE splitlines(_)
splitlines(text) ==
  IF text = <<>> THEN <<>>
  ELSE LET k == FirstLF(text)
       IN IF k = 0 THEN <<text>>
          ELSE <<SubSeq(text, 1, k - 1)>> \o splitlines(SubSeq(text, k + 1, Len(text)))

iter_lines_NoPending(pend, chunk) ==
  [lines |-> splitlines(chunk), pending |-> None]

\* One round of requests' iter_lines on a chunk: the unfinished line of the
\* round before is put in front, and the last line is held back when the
\* chunk does not end on a line end.
iter_lines(pend, chunk) ==
  LET text == (IF pend = None THEN <<>> ELSE pend[1]) \o chunk
      lines == splitlines(text)
  IN IF lines # <<>> /\ Last(lines) # <<>> /\ text # <<>>
          /\ Last(Last(lines)) = Last(text)
       THEN [lines |-> Front(lines), pending |-> Some(Last(lines))]
     ELSE [lines |-> lines, pending |-> None]

\* the lines of text that are terminated, each with its line feed
RECURSIVE CompleteLines(_)
CompleteLines(text) ==
  LET k == FirstLF(text)
  IN IF k = 0 THEN <<>>
     ELSE <<SubSeq(text, 1, k)>> \o CompleteLines(SubSeq(text, k + 1, Len(text)))

RECURSIVE Rest(_)
Rest(text) ==
  LET k == FirstLF(text)
  IN IF k = 0 THEN text ELSE Rest(SubSeq(text, k + 1, Len(text)))

\* One round of aiohttp's StreamReader on a chunk: readline returns every
\* line that is terminated, line feed included; the rest stays buffered.
readline(pend, chunk) ==
  LET text == (IF pend = None THEN <<>> ELSE pend[1]) \o chunk
  IN [lines |-> CompleteLines(text), pending |-> Some(Rest(text))]

\* what the line source yields when the body ends
AtEof(mode, pend) ==
  IF pend = None \/ (mode = "async" /\ pend[1] = <<>>) THEN <<>> ELSE <<pend[1]>>

\* the line without its terminator
Strip(line) == IF line # <<>> /\ Last(line) = LF THEN Front(line) ELSE line

\* The framer on one line: a blank line completes the frame accumulated so
\* far, a field line is added to it.
FrameLine(st, raw) ==
  LET line == Strip(raw)
  IN IF line = <<>>
       THEN IF st.cur = EmptyFrame THEN st
            ELSE [cur |-> EmptyFrame, out |-> Append(st.out, st.cur)]
     ELSE IF line[1] = "E"
       THEN [st EXCEPT !.cur.event = Some(Tail(line))]
     ELSE [st EXCEPT !.cur.data = Some(Tail(line))]

RECURSIVE FrameLines(_, _)
FrameLines(st, lines) ==
  IF lines = <<>> THEN st ELSE FrameLines(FrameLine(st, Head(lines)), Tail(lines))

InitFram ==
  /\ CoreIdle
  /\ ChatIdle
  /\ SessIdle
  /\ DispIdle
  /\ AppIdle
  /\ LoadIdle
  /\ wire \in Wires
  /\ fmode \in {"sync", "async"}
  /\ fed = 0
  /\ lpending = None
  /\ cur = EmptyFrame
  /\ fout = <<>>
  /\ fstate = "open"

\* The transport delivers the next n bytes as one chunk; the line source
\* turns them into lines and the framer takes the lines.
FeedChunk ==
  /\ fstate = "open"
  /\ \E n \in 1..(Len(wire) - fed) :
       LET chunk == SubSeq(wire, fed + 1, fed + n)
           r == IF fmode = "sync" THEN iter_lines(lpending, chunk)
                ELSE readline(lpending, chunk)
           st == FrameLines([cur |-> cur, out |-> fout], r.lines)
       IN /\ fed' = fed + n
          /\ lpending' = r.pending
          /\ cur' = st.cur
          /\ fout' = st.out
  /\ UNCHANGED <<wire, fmode, fstate>>
  /\ UNCHANGED nonFramVars

\* The body ends: the line source yields what it held back, and the frame
\* still being accumulated is dropped.
EndOfBody ==
  /\ fstate = "open"
  /\ fed = Len(wire)
  /\ LET st == FrameLines([cur |-> cur, out |-> fout], AtEof(fmode, lpending))
     IN /\ fout' = st.out
        /\ cur' = EmptyFrame
  /\ lpending' = None
  /\ fstate' = "done"
  /\ UNCHANGED <<wire, fmode, fed>>
  /\ UNCHANGED nonFramVars

NextFram ==
  \/ FeedChunk
  \/ EndOfBody

SpecFram == InitFram /\ [][NextFram]_vars

\* the frames of a body taken as one piece of text
FramesOf(text) == FrameLines([cur |-> EmptyFrame, out |-> <<>>], splitlines(text)).out

\* a blank line ends at byte i
BlankAt(i) == wire[i] = LF /\ (i = 1 \/ wire[i - 1] = LF)

\* the end of the last blank line of the body, 0 when it has none
LastBlank ==
  IF \E i \in 1..Len(wire) : BlankAt(i)
    THEN CHOOSE i \in 1..Len(wire) : BlankAt(i) /\ \A j \in (i + 1)..Len(wire) : ~BlankAt(j)
  ELSE 0

StreamCallOver ==
  /\ pc = "done"
  /\ client.api = "stream"
  /\ result.kind \in StreamHandles

\* C16: when a streaming chat call is over, however it ended (the events
\* exhausted, the caller gone after some of them, the decoder's error), its
\* connection has been released exactly once.
C16_ReleasedExactlyOnce ==
  StreamCallOver => released = 1

\* C18: when a chat call in which a failure occurred is over, its caller has
\* been given an exception.
C18_FailureSurfaces ==
  (pc = "done" /\ pending # NoError) => outcome.kind = "raised"

(***************************************************************************)
(* Calls in flight on one AsyncChatClient.  The client's Requester is      *)
(* shared (aiagentplatform.py:70-82) and each call stores the session it   *)
(* opens in Requester.a_session (chat/__init__.py:747, 792).  Tasks        *)
(* interleave only where a call awaits the network: from opening its       *)
(* session to the dispatch of its request a call runs without suspension.  *)
(* Call c opens the session with id c.                                     *)
(***************************************************************************)
InitSess ==
  /\ CoreIdle
  /\ ChatIdle
  /\ FramIdle
  /\ SessIdle
  /\ DispIdle
  /\ AppIdle
  /\ LoadIdle

\* the session that the call's finally block closes:
\* "if self._requester.a_session: await self._requester.a_session.close()"
SessionToClose(shared, c) == shared

\* create() / stream() up to the first await on the network: the session is
\* opened and stored in the Requester, and asend dispatches on it.
SessStart(c) ==
  /\ calls[c].pc = "idle"
  /\ \E api \in {"create", "stream"} :
       calls' = [calls EXCEPT ![c] = [pc |-> "inflight", api |-> api, broken |-> FALSE]]
  /\ a_session' = c
  /\ sess' = [sess EXCEPT ![c] = "open"]
  /\ UNCHANGED closes
  /\ UNCHANGED nonSessVars

\* The call's response and events arrive on its session.
SessReceive(c) ==
  /\ calls[c].pc = "inflight"
  /\ sess[c] = "open"
  /\ calls' = [calls EXCEPT ![c].pc = "finishing"]
  /\ UNCHANGED <<a_session, sess, closes>>
  /\ UNCHANGED nonSessVars

\* The call resumes on a session that was closed under it.
SessBroken(c) ==
  /\ calls[c].pc = "inflight"
  /\ sess[c] = "closed"
  /\ calls' = [calls EXCEPT ![c].pc = "finishing", ![c].broken = TRUE]
  /\ UNCHANGED <<a_session, sess, closes>>
  /\ UNCHANGED nonSessVars

\* The finally block of create() / stream(): close() on a closed session
\* does nothing.
SessFinally(c) ==
  /\ calls[c].pc = "finishing"
  /\ LET s == SessionToClose(a_session, c)
     IN IF s # 0 /\ sess[s] = "open"
          THEN /\ sess' = [sess EXCEPT ![s] = "closed"]
               /\ closes' = [closes EXCEPT ![s] = @ + 1]
          ELSE UNCHANGED <<sess, closes>>
  /\ calls' = [calls EXCEPT ![c].pc = "done"]
  /\ UNCHANGED a_session
  /\ UNCHANGED nonSessVars

NextSess ==
  \/ \E c \in CallIds : SessStart(c)
  \/ \E c \in CallIds : SessReceive(c)
  \/ \E c \in CallIds : SessBroken(c)
  \/ \E c \in CallIds : SessFinally(c)

SpecSess == InitSess /\ [][NextSess]_vars

\* C17: no call in flight has its session closed under it, no session is
\* closed more than once, and when every call that started is done every
\* session that was opened is closed, once.
C17_EachCallClosesItsOwnSession ==
  /\ \A c \in CallIds : calls[c].pc = "inflight" => sess[c] = "open"
  /\ \A c \in CallIds : closes[c] <= 1
  /\ (\A c \in CallIds : calls[c].pc \in {"idle", "done"}) =>
       \A c \in CallIds : sess[c] # "new" => (sess[c] = "closed" /\ closes[c] = 1)

(***************************************************************************)
(* One call of Requester.request / arequest seen from the transport:       *)
(* make_request (request.py:53-96) applies the auth object, send / asend   *)
(* (219-241, 354-372) call the session and parse what it returns.          *)
(***************************************************************************)
\* the class of the auth object: the two classes make_request names, none
\* at all (the default of Requester.__init__), and any other class
AuthKinds == {"TokenAuth", "AppAkskAuth", "None", "Other"}

\* ok: the credential can produce its header (authentication / ak_sk_sign
\* returns); otherwise the method raises.  No auth object, no credential.
Auths == {a \in [kind : AuthKinds, ok : BOOLEAN] : a.kind = "None" => ~a.ok}

\* str.upper() on the letters of the model's method names
UpperChar(c) ==
  CASE c = "p" -> "P" [] c = "o" -> "O" [] c = "s" -> "S" [] c = "t" -> "T"
    [] OTHER -> c

Upper(str) == [i \in 1..Len(str) |-> UpperChar(str[i])]

Methods == {<<"p", "o", "s", "t">>, <<"G", "E", "T">>}

\* the arguments of request / arequest.  url, params, headers and body take
\* the same way through both; body stands for them.
DispArgs ==
  [entry : {"request", "arequest"}, method : Methods, body : {None, Some("b1")},
   files : {None, Some("f1")}, stream : BOOLEAN, cast : {"None", "Single"},
   data_field : {"data", "result"}]

\* what the transport does with a call: it fails at network level, or it
\* returns a response
NetworkFailure == [kind |-> "ConnectionError"]
TransportOutcomes ==
  {NetworkFailure} \cup ChatJsonResponses \cup ChatStreamResponses
    \cup {MkResponse(Some(CT_AUDIO), Some("log-1"), 200, TextBody("<html>"))}

\* the outcomes of the first and of a second transport call, were it made
OutcomePairs == TransportOutcomes \X TransportOutcomes

\* make_request: the auth object is applied when its class has one of the
\* two names, and an exception of its method leaves make_request as it is;
\* the descriptor takes every argument as given
make_request(a, method, body, files, cast, data_field, stream) ==
  IF a.kind \in {"TokenAuth", "AppAkskAuth"}
    THEN IF a.ok THEN HTTPRequest(method, body, files, stream, data_field, cast, TRUE)
         ELSE [kind |-> "raised_by_auth"]
  ELSE HTTPRequest(method, body, files, stream, data_field, cast, FALSE)

\* request: method.upper(), then make_request with every argument
request_make(a, args) ==
  make_request(a, Upper(args.method), args.body, args.files, args.cast, args.data_field,
               args.stream)

\* arequest: the same, but data_field is not passed on and make_request
\* takes its default
arequest_make(a, args) ==
  make_request(a, Upper(args.method), args.body, args.files, args.cast, "data",
               args.stream)

\* the arguments of self._session.request in send: files and stream are
\* passed
session_request(req) ==
  [method |-> req.method, json |-> req.json_body, signed |-> req.signed,
   files |-> Some(req.files), stream |-> Some(req.stream)]

\* the arguments of self.a_session.request in asend: neither files nor
\* stream is passed
a_session_request(req) ==
  [method |-> req.method, json |-> req.json_body, signed |-> req.signed,
   files |-> None, stream |-> None]

\* the session that send / asend call: self._session always exists
\* (__init__ makes one), self.a_session is what was stored, if anything
SessionUsable(is_async, shared, states) ==
  IF is_async THEN shared # 0 /\ states[shared] = "open" ELSE TRUE

SessionError(shared) ==
  IF shared = 0 THEN [kind |-> "AttributeError"] ELSE [kind |-> "RuntimeError"]

\* _parse_response on what the session returned, with the descriptor's cast
\* and data_field
Parsed1(o, req, is_async) == parse_response(o, req.cast, req.data_field, is_async)

TransportCall(req, is_async) ==
  IF is_async THEN a_session_request(req) ELSE session_request(req)

\* send that takes the result shape from the descriptor's stream flag
send_ShapeByFlag(req, is_async, usable, shared, outcomes) ==
  IF ~usable THEN [calls |-> 0, result |-> SessionError(shared)]
  ELSE IF outcomes[1] = NetworkFailure
    THEN [calls |-> 1, result |-> NetworkFailure]
  ELSE [calls |-> 1,
        result |-> IF req.stream
                     THEN [kind |-> IF is_async THEN "AsyncIteratorHTTPResponse"
                                    ELSE "IteratorHTTPResponse"]
                   ELSE Parsed1(outcomes[1], req, is_async)]

\* send that calls the transport again after a network failure
send_Retry(req, is_async, usable, shared, outcomes) ==
  IF ~usable THEN [calls |-> 0, result |-> SessionError(shared)]
  ELSE IF outcomes[1] = NetworkFailure
    THEN [calls |-> 2,
          result |-> IF outcomes[2] = NetworkFailure THEN NetworkFailure
                     ELSE Parsed1(outcomes[2], req, is_async)]
  ELSE [calls |-> 1, result |-> Parsed1(outcomes[1], req, is_async)]

\* send / asend: the session is called once, inside the argument list of
\* _parse_response; its exception leaves send, its response is parsed.
\* calls is the number of transport calls made.
send(req, is_async, usable, shared, outcomes) ==
  IF ~usable THEN [calls |-> 0, result |-> SessionError(shared)]
  ELSE IF outcomes[1] = NetworkFailure
    THEN [calls |-> 1, result |-> NetworkFailure]
  ELSE [calls |-> 1, result |-> Parsed1(outcomes[1], req, is_async)]

InitDisp ==
  /\ CoreIdle
  /\ ChatIdle
  /\ FramIdle
  /\ a_session \in {0, 1}
  /\ sess \in {[i \in CallIds |-> IF i = 1 /\ a_session = 1 THEN st ELSE "new"] :
                 st \in {"open", "closed"}}
  /\ closes = [i \in CallIds |-> IF sess[i] = "closed" THEN 1 ELSE 0]
  /\ calls = [c \in CallIds |-> NoCall]
  /\ AppIdle
  /\ LoadIdle
  /\ auth \in Auths
  /\ dargs = NoArgs
  /\ dreq = NoDescriptor
  /\ sent = <<>>
  /\ dpc = "idle"
  /\ net = <<>>
  /\ dresult = NoResult

IsAsync == dargs.entry = "arequest"

\* request / arequest up to the return of make_request
DispMakeRequest ==
  /\ dpc = "idle"
  /\ \E args \in DispArgs :
       LET r == IF args.entry = "request" THEN request_make(auth, args)
                ELSE arequest_make(auth, args)
       IN /\ dargs' = args
          /\ IF r.kind = "HTTPRequest"
               THEN /\ dreq' = r
                    /\ dpc' = "built"
                    /\ UNCHANGED dresult
               ELSE /\ dresult' = [kind |-> "raised", exc |-> r]
                    /\ dpc' = "raised"
                    /\ UNCHANGED dreq
  /\ UNCHANGED <<auth, net, sent>>
  /\ UNCHANGED <<a_session, sess, closes, calls>>
  /\ UNCHANGED <<coreVars, chatVars, framVars, appVars, loadVars>>

\* send / asend on the descriptor built
DispSend ==
  /\ dpc = "built"
  /\ \E outcomes \in OutcomePairs :
       LET r == send(dreq, IsAsync, SessionUsable(IsAsync, a_session, sess), a_session,
                     outcomes)
       IN /\ net' = SubSeq(outcomes, 1, r.calls)
          /\ sent' = [i \in 1..r.calls |-> TransportCall(dreq, IsAsync)]
          /\ IF r.result.kind \in (ErrorKinds \cup {"ConnectionError", "AttributeError",
                                                   "RuntimeError"})
               THEN /\ dresult' = [kind |-> "raised", exc |-> r.result]
                    /\ dpc' = "raised"
               ELSE /\ dresult' = [kind |-> "returned", value |-> r.result]
                    /\ dpc' = "returned"
  /\ UNCHANGED <<auth, dargs, dreq>>
  /\ UNCHANGED <<a_session, sess, closes, calls>>
  /\ UNCHANGED <<coreVars, chatVars, framVars, appVars, loadVars>>

NextDisp ==
  \/ DispMakeRequest
  \/ DispSend

SpecDisp == InitDisp /\ [][NextDisp]_vars

\* C19: a request that reached the transport had the authentication applied
\* to it before, and when the credential cannot produce its header no
\* transport call is made.
C19_NoDispatchWithoutAuth ==
  /\ net # <<>> => dreq.signed
  /\ ~auth.ok => net = <<>>

\* the call is over
DispOver == dpc \in {"returned", "raised"}

\* C20 as stated: a call that is over has made exactly one transport call.
C20_ExactlyOneDispatch ==
  DispOver => Len(net) = 1

\* C20, amended: a call makes at most one transport call, and exactly one
\* when make_request returned and the session it goes to is usable; when
\* that call failed at network level the caller got that failure, nothing
\* was returned and no second call was made.
C20_OneDispatchNoRetry ==
  /\ Len(net) <= 1
  /\ (DispOver /\ dresult.kind = "returned") => Len(net) = 1
  /\ (DispOver /\ dresult.kind = "raised" /\ dresult.exc.kind
        \notin {"raised_by_auth", "AttributeError", "RuntimeError"}) => Len(net) = 1
  /\ (net # <<>> /\ net[1] = NetworkFailure) =>
       /\ dpc = "raised"
       /\ dresult = [kind |-> "raised", exc |-> NetworkFailure]

\* a call whose one transport call failed at network level is over
C20_Witness ==
  /\ dpc = "raised"
  /\ net = <<NetworkFailure>>
  /\ dresult.exc = NetworkFailure

(***************************************************************************)
(* Claims on the two execution models.                                     *)
(***************************************************************************)
\* an outcome without the name of the execution model: the two stream
\* handles are the same route
Outcome(r) == IF r.kind \in StreamHandles THEN [kind |-> "stream handle"] ELSE r

\* C21: what _parse_response gave for the response of this call is what it
\* gives for the same response, cast and data field in the other execution
\* model: the same route, the same payload, the same error with the same
\* code and message.
C21_SameOutcomeInBothModels ==
  Parsed =>
    Outcome(result) = Outcome(parse_response(response, request.cast, request.data_field,
                                             ~request.is_async))

\* C22: every descriptor that make_request built, and every descriptor that
\* was dispatched, has cast None when its stream flag is set.
C22_StreamImpliesNoCast ==
  dreq.stream => dreq.cast = "None"

----------------------------------------------------------------------------
\* no rule before the two-level one applies to the body: no error rule, and
\* neither the key "data.data" nor debug_url is present
NoEarlierRule ==
  /\ ~HasCodeError
  /\ ~HasAuthError
  /\ ~HasMessageError
  /\ ~Has(Body, "data.data")
  /\ ~Has(Body, "debug_url")

----------------------------------------------------------------------------
\* C24: a response routed to the mapper whose body is not JSON always fails
\* with an ApiError carrying the HTTP status as code, the raw text as
\* message and the trace-id header; nothing is returned.
C24_NonJsonAlwaysApiError ==
  (Parsed /\ response.content_type \in ParsedContentTypes /\ ~response.body.is_json)
    => /\ pc = "raised"
       /\ result = AiAgentPlatformAPIError(Some(response.status_code), response.body.text,
                                           response.logid)

----------------------------------------------------------------------------
\* C25: whichever of request and arequest is called, the descriptor built
\* holds the upper-cased method, the body, the files, the cast, the stream
\* flag and the data_field of the call, and the transport is given the
\* method, the body, the files and the stream flag of the call.
C25_SameDescriptorAndDispatch ==
  /\ dreq # NoDescriptor
       => /\ dreq.method = Upper(dargs.method)
          /\ dreq.json_body = dargs.body
          /\ dreq.files = dargs.files
          /\ dreq.cast = dargs.cast
          /\ dreq.stream = dargs.stream
          /\ dreq.data_field = dargs.data_field
  /\ \A i \in 1..Len(sent) :
       /\ sent[i].method = Upper(dargs.method)
       /\ sent[i].json = dargs.body
       /\ sent[i].files = Some(dargs.files)
       /\ sent[i].stream = Some(dargs.stream)

----------------------------------------------------------------------------
\* the transport was called and gave a response
DispGot == dpc \in {"returned", "raised"} /\ Len(net) = 1 /\ net[1] # NetworkFailure

Got == net[1]

GotContentType == IF Got.content_type = None THEN <<>> ELSE Lower(Got.content_type[1])

IsEventStream == Contains(STR_EVENT_STREAM, GotContentType)
IsAudio == ~IsEventStream /\ Contains(STR_AUDIO, GotContentType)

HandleReturned == dresult.kind = "returned" /\ dresult.value.kind \in StreamHandles

\* C26 as stated: a call with stream=True whose response is not an
\* event-stream yields no stream handle; it is error-mapped and with cast
\* None returns None.  A call with stream=False whose response is an
\* event-stream yields a stream handle.
C26_NonStreamIsErrorMapped ==
  DispGot =>
    /\ (dreq.stream /\ ~IsEventStream)
         => /\ ~HandleReturned
            /\ dreq.cast = "None"
                 => \/ dresult = [kind |-> "returned", value |-> [kind |-> "none"]]
                    \/ /\ dresult.kind = "raised"
                       /\ dresult.exc.kind \in {"ApiError", "AuthError"}
    /\ (~dreq.stream /\ IsEventStream) => HandleReturned

\* C26 (amended): whatever the stream flag, a response that is not an
\* event-stream yields no stream handle: an audio response yields a file
\* response, and any other response goes to the mapper, after which a call
\* with cast None that returns, returns None.  An event-stream response
\* yields a stream handle whatever the stream flag and the cast.
C26_ShapeByContentType ==
  DispGot =>
    /\ ~IsEventStream
         => /\ ~HandleReturned
            /\ IsAudio => dresult = [kind |-> "returned", value |-> [kind |-> "FileHTTPResponse"]]
            /\ (~IsAudio /\ dreq.cast = "None" /\ dresult.kind = "returned")
                 => dresult.value = [kind |-> "none"]
    /\ IsEventStream => HandleReturned

C26_Witness ==
  /\ DispGot
  /\ ~dreq.stream
  /\ dreq.cast = "Single"
  /\ IsEventStream
  /\ HandleReturned

----------------------------------------------------------------------------
MaxQueries == 2
MaxSends == 2

QueryTexts == {"q1", "q2"}

JStr(x) == [t |-> "str", v |-> x]
JInt(n) == [t |-> "int", v |-> n]

\* what json.loads rejects
NotJson == [t |-> "garbage", v |-> <<>>]

MkDoc(keys, name, skills, rank) ==
  JDict([k \in keys |->
           CASE k = "name" -> name
             [] k = "skills" -> skills
             [] k = "rank" -> rank
             [] k = "other" -> JStr("x")])

\* the documents an answer holds: objects with empty and non-empty key
\* fields, with a list of strings and a list json.loads fills with numbers,
\* an object without any key field, and documents that are no object
AnswerDocs ==
  {NotJson, JNull, JInt(0), JInt(5), JList(<<JStr("a")>>),
   MkDoc({}, JNull, JNull, JNull),
   MkDoc({"other"}, JNull, JNull, JNull),
   MkDoc({"name"}, JStr(""), JNull, JNull),
   MkDoc({"name"}, JStr(" "), JNull, JNull),
   MkDoc({"name"}, JStr("Li"), JNull, JNull),
   MkDoc({"name", "skills"}, JStr("Li"), JList(<<JStr("py"), JStr("go")>>), JNull),
   MkDoc({"name", "skills"}, JStr("Li"), JList(<<>>), JNull),
   MkDoc({"skills", "other"}, JNull, JList(<<JInt(1)>>), JNull),
   MkDoc({"rank"}, JNull, JNull, JInt(3)),
   MkDoc({"rank"}, JNull, JNull, JInt(0))}

\* an answer text: a document, bare, between ```json and ```, or after a
\* ```json that is never closed
Answers ==
  {[fence |-> "none", doc |-> d] : d \in AnswerDocs}
    \cup {[fence |-> f, doc |-> d] :
            f \in {"closed", "open"},
            d \in {NotJson, MkDoc({"name"}, JStr("Li"), JNull, JNull)}}

\* what aiagentplatform.chat.create does: it raises, it returns None (no
\* message_end event), or it returns a message whose answer is a text or
\* None
ChatCreates ==
  {[kind |-> "raise"], [kind |-> "none"], [kind |-> "message", answer |-> None]}
    \cup {[kind |-> "message", answer |-> Some(a)] : a \in Answers}

\* json.loads of the text the markers delimit; JSONDecodeError is caught and
\* gives None, and so does the AttributeError of None.find
extract_json_from_response(response_text) ==
  IF response_text = None THEN JNull
  ELSE LET text == response_text[1]
           json_text == IF text.fence = "none" THEN text.doc
                        ELSE IF text.fence = "open" THEN text.doc
                        ELSE text.doc
       IN IF json_text = NotJson THEN JNull ELSE json_text

\* str.strip() on the field texts of the documents
StripText(x) == IF x = " " THEN "" ELSE x

\* Python's truth value of a JSON value
Truthy(x) ==
  CASE x.t = "null" -> FALSE
    [] x.t = "int" -> x.v # 0
    [] x.t = "str" -> x.v # ""
    [] x.t = "list" -> Len(x.v) > 0
    [] x.t = "dict" -> DOMAIN x.v # {}

key_fields == {"name", "skills", "rank"}

\* the three tests of _is_all_fields_empty on one value
NonEmptyField(x) ==
  IF x.t = "str" THEN StripText(x.v) # ""
  ELSE IF x.t = "list" THEN Len(x.v) > 0
  ELSE Truthy(x)

\* _is_all_fields_empty: `field in data` is a key test on a dict, a
\* membership test on a list (no element is a key field name) and a
\* TypeError on a number
is_all_fields_empty(data) ==
  IF data.t = "int" THEN TypeError
  ELSE IF data.t = "list" THEN [kind |-> "bool", v |-> TRUE]
  ELSE [kind |-> "bool",
        v |-> ~\E field \in key_fields \cap DOMAIN data.v : NonEmptyField(data.v[field])]

\* '; '.join(value): the texts with the separator between them
RECURSIVE JoinTexts(_)
JoinTexts(list) ==
  IF Len(list) = 0 THEN <<>>
  ELSE IF Len(list) = 1 THEN <<list[1].v>>
  ELSE <<list[1].v, "; ">> \o JoinTexts(Tail(list))

\* the loop over extracted_info.items(): a list becomes its joined text, ''
\* when empty; join raises TypeError on an element that is no str
JoinLists(info) ==
  IF \E k \in DOMAIN info : info[k].t = "list" /\ \E j \in 1..Len(info[k].v) : info[k].v[j].t # "str"
    THEN TypeError
  ELSE [kind |-> "dict",
        v |-> [k \in DOMAIN info |->
                 IF info[k].t = "list"
                   THEN IF Len(info[k].v) > 0 THEN [t |-> "joined", v |-> JoinTexts(info[k].v)]
                        ELSE JStr("")
                 ELSE info[k]]]

\* create_or_load_conversation: the id of the file when use_existing and the
\* file holds one; otherwise conversations.create, whose exception is
\* re-raised and whose id is saved and stored
create_or_load_conversation(use_existing, file, created) ==
  IF use_existing /\ file # None /\ file[1] # ""
    THEN [kind |-> "returned", conversation_id |-> file]
  ELSE IF created = None THEN [kind |-> "raised"]
  ELSE [kind |-> "returned", conversation_id |-> created]

Timestamp == "2025-08-03"

\* send_message that stores the message in the history before it calls
send_message_HistoryFirst(cid, history, message, chat_res) ==
  IF cid = None \/ cid[1] = ""
    THEN [kind |-> "raised", exc |-> "ValueError", called |-> FALSE, history |-> history]
  ELSE LET data == [message |-> message,
                    answer |-> IF chat_res.kind = "message" THEN chat_res.answer ELSE None,
                    conversation_id |-> cid[1], timestamp |-> Timestamp]
       IN IF chat_res.kind = "raise"
            THEN [kind |-> "raised", exc |-> "Exception", called |-> TRUE,
                  history |-> Append(history, data)]
          ELSE IF chat_res.kind = "none"
            THEN [kind |-> "raised", exc |-> "AttributeError", called |-> TRUE,
                  history |-> Append(history, data)]
          ELSE [kind |-> "returned", value |-> data, called |-> TRUE,
                history |-> Append(history, data)]

\* send_message: ValueError before any call when there is no conversation
\* id; chat.create's exception, and the AttributeError of None.answer, are
\* re-raised; otherwise the response data is appended to the history and
\* returned
send_message(cid, history, message, chat_res) ==
  IF cid = None \/ cid[1] = ""
    THEN [kind |-> "raised", exc |-> "ValueError", called |-> FALSE, history |-> history]
  ELSE IF chat_res.kind = "raise"
    THEN [kind |-> "raised", exc |-> "Exception", called |-> TRUE, history |-> history]
  ELSE IF chat_res.kind = "none"
    THEN [kind |-> "raised", exc |-> "AttributeError", called |-> TRUE, history |-> history]
  ELSE LET data == [message |-> message, answer |-> chat_res.answer,
                    conversation_id |-> cid[1], timestamp |-> Timestamp]
       IN [kind |-> "returned", value |-> data, called |-> TRUE,
           history |-> Append(history, data)]

\* process_resume_query on what send_message gave: None on any exception,
\* on an answer without a document, on a falsy document and on a document
\* whose key fields are all empty; otherwise the document with the query,
\* the conversation id and the timestamp added and its lists joined
process_resume_query(query, sent_msg) ==
  IF sent_msg.kind = "raised" THEN None
  ELSE LET resp == sent_msg.value
           extracted_info == extract_json_from_response(resp.answer)
       IN IF ~Truthy(extracted_info) THEN None
          ELSE LET empty == is_all_fields_empty(extracted_info)
               IN IF empty = TypeError THEN None
                  ELSE IF empty.v THEN None
                  ELSE LET info ==
                             [k \in DOMAIN extracted_info.v
                                      \cup {"query", "conversation_id", "timestamp"} |->
                                CASE k = "query" -> JStr(query)
                                  [] k = "conversation_id" -> JStr(resp.conversation_id)
                                  [] k = "timestamp" -> JStr(resp.timestamp)
                                  [] OTHER -> extracted_info.v[k]]
                           joined == JoinLists(info)
                       IN IF joined = TypeError THEN None ELSE Some(joined.v)

\* the loop body with enumerate(queries) counting from 0
batch_step_ZeroBased(data, failed, i, query, extracted_info) ==
  IF extracted_info # None /\ DOMAIN extracted_info[1] # {}
    THEN [extracted_data |-> Append(data, extracted_info[1]), failed_queries |-> failed]
  ELSE [extracted_data |-> data,
        failed_queries |-> Append(failed, [seq_no |-> i - 1, content |-> query])]

\* the body of batch_extract_resumes' loop for the i-th query: the record
\* is appended, or the failure is recorded with the query's position (the
\* time and the constant reason of the entry are left out)
batch_step(data, failed, i, query, extracted_info) ==
  IF extracted_info # None /\ DOMAIN extracted_info[1] # {}
    THEN [extracted_data |-> Append(data, extracted_info[1]), failed_queries |-> failed]
  ELSE [extracted_data |-> data,
        failed_queries |-> Append(failed, [seq_no |-> i, content |-> query])]

InitApp ==
  /\ CoreIdle
  /\ ChatIdle
  /\ FramIdle
  /\ SessIdle
  /\ DispIdle
  /\ AppIdle
  /\ LoadIdle

\* no call on the object is in progress
Callable == apc \in {"idle", "rounds_returned", "batch_returned"}

ConversationFiles == {None, Some(""), Some("c1")}
Created == {None, Some("c2")}

SendLog(message, chat_res, r) ==
  Append(sends, [message |-> message, cid |-> conversation_id, chat_res |-> chat_res,
                 called |-> r.called])

\* create_or_load_conversation called by the user
AppCreateOrLoad ==
  /\ Callable
  /\ conversation_id = None
  /\ \E use_existing \in BOOLEAN, file \in ConversationFiles, created \in Created :
       LET r == create_or_load_conversation(use_existing, file, created)
       IN conversation_id' = IF r.kind = "returned" THEN r.conversation_id
                             ELSE conversation_id
  /\ UNCHANGED <<chat_history, sends, apc, work, idx, responses, extracted_data,
                 failed_queries>>
  /\ UNCHANGED nonAppVars

\* send_message called by the user; what an earlier multi_round_chat or
\* batch_extract_resumes returned is no longer looked at
AppSendMessage ==
  /\ Callable
  /\ Len(sends) < MaxSends
  /\ \E message \in QueryTexts, chat_res \in ChatCreates :
       LET r == send_message(conversation_id, chat_history, message, chat_res)
       IN /\ chat_history' = r.history
          /\ sends' = SendLog(message, chat_res, r)
  /\ apc' = "idle"
  /\ UNCHANGED <<conversation_id, work, idx, responses, extracted_data, failed_queries>>
  /\ UNCHANGED nonAppVars

\* multi_round_chat(messages) up to its loop
RoundsStart ==
  /\ Callable
  /\ \E messages \in SeqsUpTo(QueryTexts, MaxQueries) :
       /\ Len(sends) + Len(messages) <= MaxSends
       /\ work' = messages
  /\ apc' = "rounds"
  /\ idx' = 0
  /\ responses' = <<>>
  /\ UNCHANGED <<conversation_id, chat_history, sends, extracted_data, failed_queries>>
  /\ UNCHANGED nonAppVars

\* one round: the response is appended, or the exception is caught and the
\* loop continues
RoundsNext ==
  /\ apc = "rounds"
  /\ idx < Len(work)
  /\ \E chat_res \in ChatCreates :
       LET r == send_message(conversation_id, chat_history, work[idx + 1], chat_res)
       IN /\ chat_history' = r.history
          /\ sends' = SendLog(work[idx + 1], chat_res, r)
          /\ responses' = IF r.kind = "returned" THEN Append(responses, r.value)
                          ELSE responses
  /\ idx' = idx + 1
  /\ UNCHANGED <<conversation_id, apc, work, extracted_data, failed_queries>>
  /\ UNCHANGED nonAppVars

RoundsReturn ==
  /\ apc = "rounds"
  /\ idx = Len(work)
  /\ apc' = "rounds_returned"
  /\ UNCHANGED <<conversation_id, chat_history, sends, work, idx, responses, extracted_data,
                 failed_queries>>
  /\ UNCHANGED nonAppVars

\* batch_extract_resumes(queries) up to its loop: the conversation is loaded
\* or created; an exception of the creation leaves the call
BatchStart ==
  /\ Callable
  /\ \E qs \in SeqsUpTo(QueryTexts, MaxQueries), file \in ConversationFiles, created \in Created :
       LET r == create_or_load_conversation(TRUE, file, created)
       IN /\ Len(sends) + Len(qs) <= MaxSends
          /\ IF r.kind = "raised"
               THEN UNCHANGED <<conversation_id, apc, work, idx, extracted_data, failed_queries>>
               ELSE /\ conversation_id' = r.conversation_id
                    /\ apc' = "batch"
                    /\ work' = qs
                    /\ idx' = 0
                    /\ extracted_data' = <<>>
                    /\ failed_queries' = <<>>
  /\ UNCHANGED <<chat_history, sends, responses>>
  /\ UNCHANGED nonAppVars

\* one query of the batch
BatchNext ==
  /\ apc = "batch"
  /\ idx < Len(work)
  /\ \E chat_res \in ChatCreates :
       LET query == work[idx + 1]
           r == send_message(conversation_id, chat_history, query, chat_res)
           b == batch_step(extracted_data, failed_queries, idx + 1, query,
                           process_resume_query(query, r))
       IN /\ chat_history' = r.history
          /\ sends' = SendLog(query, chat_res, r)
          /\ extracted_data' = b.extracted_data
          /\ failed_queries' = b.failed_queries
  /\ idx' = idx + 1
  /\ UNCHANGED <<conversation_id, apc, work, responses>>
  /\ UNCHANGED nonAppVars

\* the lists are stored on the extractor, the failed queries are saved (an
\* exception of the saving is caught) and the records are returned
BatchReturn ==
  /\ apc = "batch"
  /\ idx = Len(work)
  /\ apc' = "batch_returned"
  /\ UNCHANGED <<conversation_id, chat_history, sends, work, idx, responses, extracted_data,
                 failed_queries>>
  /\ UNCHANGED nonAppVars

NextApp ==
  \/ AppCreateOrLoad
  \/ AppSendMessage
  \/ RoundsStart
  \/ RoundsNext
  \/ RoundsReturn
  \/ BatchStart
  \/ BatchNext
  \/ BatchReturn

SpecApp == InitApp /\ [][NextApp]_vars

----------------------------------------------------------------------------
\* the send_message call made for the i-th query / message of the loop in
\* progress
LoopSend(i) == sends[Len(sends) - idx + i]

FailedPositions == {failed_queries[k].seq_no : k \in 1..Len(failed_queries)}

\* the k-th smallest element of a set of numbers
KthOf(S, k) == CHOOSE x \in S : Cardinality({y \in S : y < x}) = k - 1

EmptyValue(x) == x \in {JNull, JStr(""), JStr(" "), JList(<<>>), JInt(0)}

\* the i-th query failed: no message came back, or its answer holds no JSON
\* document, or a document whose key fields are all empty
FailedAnswer(i) ==
  LET c == LoopSend(i).chat_res
  IN \/ c.kind # "message"
     \/ c.answer = None
     \/ c.answer[1].doc = NotJson
     \/ /\ c.answer[1].doc.t = "dict"
        /\ \A f \in {"name", "skills", "rank"} \cap DOMAIN c.answer[1].doc.v :
             EmptyValue(c.answer[1].doc.v[f])

\* the i-th query was answered with a document that names the candidate and
\* holds texts and lists of texts only
GoodAnswer(i) ==
  LET c == LoopSend(i).chat_res
  IN /\ c.kind = "message"
     /\ c.answer # None
     /\ c.answer[1].doc.t = "dict"
     /\ "name" \in DOMAIN c.answer[1].doc.v
     /\ c.answer[1].doc.v["name"] = JStr("Li")
     /\ \A f \in DOMAIN c.answer[1].doc.v :
          c.answer[1].doc.v[f].t = "list"
            => \A j \in 1..Len(c.answer[1].doc.v[f].v) : c.answer[1].doc.v[f].v[j].t = "str"

\* C28: while batch_extract_resumes runs and after it returned, every query
\* processed so far gave one record or one failed entry; after the return
\* every query was processed.  The failed entries hold the 1-based positions
\* of their queries, in increasing order, the records are those of the other
\* positions in order, and a query that failed (exception, no document, all
\* key fields empty) is among the failed ones while the queries after it
\* were still processed.
C28_EveryQueryAccountedOnce ==
  apc \in {"batch", "batch_returned"} =>
    /\ Len(extracted_data) + Len(failed_queries) = idx
    /\ apc = "batch_returned" => idx = Len(work)
    /\ \A k \in 1..Len(failed_queries) :
         /\ failed_queries[k].seq_no \in 1..idx
         /\ failed_queries[k].content = work[failed_queries[k].seq_no]
         /\ k > 1 => failed_queries[k - 1].seq_no < failed_queries[k].seq_no
    /\ \A k \in 1..Len(extracted_data) :
         /\ Cardinality((1..idx) \ FailedPositions) = Len(extracted_data)
         /\ extracted_data[k]["query"] = JStr(work[KthOf((1..idx) \ FailedPositions, k)])
    /\ \A i \in 1..idx :
         /\ FailedAnswer(i) => i \in FailedPositions
         /\ GoodAnswer(i) => i \notin FailedPositions

C28_Witness ==
  /\ apc = "batch_returned"
  /\ work = <<"q1", "q2">>
  /\ LoopSend(1).chat_res.kind = "raise"
  /\ failed_queries = <<[seq_no |-> 1, content |-> "q1"]>>
  /\ Len(extracted_data) = 1
  /\ extracted_data[1]["query"] = JStr("q2")
  /\ "skills" \in DOMAIN extracted_data[1]

----------------------------------------------------------------------------
\* a send_message call that was answered
Successful(s) == s.cid # None /\ s.chat_res.kind = "message"

\* the entry of an answered call
EntryOf(s) ==
  [message |-> s.message, answer |-> s.chat_res.answer, conversation_id |-> s.cid[1],
   timestamp |-> "2025-08-03"]

EntriesOf(log) ==
  LET ok == SelectSeq(log, Successful)
  IN [k \in 1..Len(ok) |-> EntryOf(ok[k])]

\* C29: chat_history holds the entries of the answered send_message calls,
\* in call order and nothing else; a call made without a conversation id
\* reached no network call; multi_round_chat has sent its messages in order,
\* one call each, whatever failed, and its responses are the entries of the
\* answered ones in order.
C29_HistoryIsAnsweredMessages ==
  /\ Len(chat_history) = Len(EntriesOf(sends))
  /\ \A k \in 1..Len(chat_history) : chat_history[k] = EntriesOf(sends)[k]
  /\ \A k \in 1..Len(sends) : sends[k].called <=> sends[k].cid # None
  /\ apc \in {"rounds", "rounds_returned"}
       => LET sub == SubSeq(sends, Len(sends) - idx + 1, Len(sends))
          IN /\ apc = "rounds_returned" => idx = Len(work)
             /\ \A i \in 1..idx : sub[i].message = work[i]
             /\ Len(responses) = Len(EntriesOf(sub))
             /\ \A k \in 1..Len(responses) : responses[k] = EntriesOf(sub)[k]

C29_Witness ==
  /\ apc = "rounds_returned"
  /\ work = <<"q1", "q2">>
  /\ sends[1].chat_res.kind = "raise"
  /\ sends[1].called
  /\ Len(responses) = 1
  /\ responses[1].message = "q2"
  /\ chat_history = responses

(***************************************************************************)
(* QueryLoader (query_loader.py).  A text is the tuple of its characters;  *)
(* each character of the two suffixes is written as its pinyin syllable:   *)
(* SUFFIX is the "de jian li qing kuang" that load_from_csv and            *)
(* load_from_txt append, SUFFIX_EXCEL the "de jian li xin xi" that         *)
(* load_from_excel appends.                                                *)
(***************************************************************************)
MaxCells == 2

SUFFIX == <<"de", "jian", "li", "qing", "kuang">>
SUFFIX_EXCEL == <<"de", "jian", "li", "xin", "xi">>

IsSpace(c) == c \in {" ", "\n"}

\* str.strip()
strip(text) ==
  LET keep == {i \in 1..Len(text) : ~IsSpace(text[i])}
  IN IF keep = {} THEN <<>>
     ELSE SubSeq(text, CHOOSE i \in keep : \A j \in keep : i <= j,
                 CHOOSE i \in keep : \A j \in keep : j <= i)

\* str.endswith(suffix)
endswith(text, suffix) ==
  /\ Len(text) >= Len(suffix)
  /\ SubSeq(text, Len(text) - Len(suffix) + 1, Len(text)) = suffix

\* the texts of a cell or a line: a name or nothing, followed by nothing,
\* by one of the two suffixes or by the suffix twice, with and without
\* blanks around it
CellTexts ==
  {lead \o core \o tail \o trail :
     lead \in {<<>>, <<" ">>}, core \in {<<>>, <<"a">>},
     tail \in {<<>>, SUFFIX, SUFFIX_EXCEL, SUFFIX \o SUFFIX},
     trail \in {<<>>, <<"\n">>}}

NaN == [t |-> "nan", v |-> <<>>]
Cell(text) == [t |-> "str", v |-> text]

\* a column of a sheet may hold empty cells; the lines of a text file are
\* texts
Columns(kind) ==
  SeqsUpTo({Cell(x) : x \in CellTexts} \cup (IF kind = "txt" THEN {} ELSE {NaN}), MaxCells)

\* the body of the loaders' loop for one cell: the stripped text, with the
\* suffix appended unless it ends with it
normalise(text, suffix) ==
  LET query_text == strip(text)
  IN IF ~endswith(query_text, suffix) THEN query_text \o suffix ELSE query_text

\* the loaders' loop: empty cells and blank texts are passed over
RECURSIVE collect(_, _)
collect(cells, suffix) ==
  IF cells = <<>> THEN <<>>
  ELSE LET query == Head(cells)
           rest == collect(Tail(cells), suffix)
       IN IF query # NaN /\ strip(query.v) # <<>>
            THEN <<normalise(query.v, suffix)>> \o rest
          ELSE rest

\* a file that cannot be read gives the empty list
load_from_excel(file) == IF file = None THEN <<>> ELSE collect(file[1], SUFFIX_EXCEL)
load_from_csv(file) == IF file = None THEN <<>> ELSE collect(file[1], SUFFIX)
load_from_txt(file) == IF file = None THEN <<>> ELSE collect(file[1], SUFFIX)

load(kind, file) ==
  CASE kind = "excel" -> load_from_excel(file)
    [] kind = "csv" -> load_from_csv(file)
    [] kind = "txt" -> load_from_txt(file)

InitLoad ==
  /\ CoreIdle
  /\ ChatIdle
  /\ FramIdle
  /\ SessIdle
  /\ DispIdle
  /\ AppIdle
  /\ LoadIdle

\* one of the three loaders is called on a file
Load ==
  /\ qpc = "idle"
  /\ \E kind \in {"excel", "csv", "txt"} :
       \E file \in {None} \cup {Some(c) : c \in Columns(kind)} :
         /\ loader' = kind
         /\ column' = IF file = None THEN <<>> ELSE file[1]
         /\ queries' = load(kind, file)
  /\ qpc' = "loaded"
  /\ UNCHANGED nonLoadVars

\* the queries returned are written to a file of the same kind and the same
\* loader is called on it
Reload ==
  /\ qpc = "loaded"
  /\ column' = [k \in 1..Len(queries) |-> Cell(queries[k])]
  /\ queries' = load(loader, Some([k \in 1..Len(queries) |-> Cell(queries[k])]))
  /\ qpc' = "reloaded"
  /\ UNCHANGED loader
  /\ UNCHANGED nonLoadVars

NextLoad ==
  \/ Load
  \/ Reload

SpecLoad == InitLoad /\ [][NextLoad]_vars

----------------------------------------------------------------------------
\* the cell holds a text that is not blank
NotBlank(c) == c.t = "str" /\ \E i \in 1..Len(c.v) : c.v[i] \notin {" ", "\n"}

\* C30: whichever loader was called, the list returned holds one query for
\* each non-blank cell, in order: the stripped text of the cell, followed by
\* the suffix "de jian li qing kuang" exactly when the stripped text does
\* not end with it; loading the returned queries again returns them
\* unchanged.
C30_LoadersNormaliseAlike ==
  qpc \in {"loaded", "reloaded"} =>
    LET kept == SelectSeq(column, NotBlank)
    IN /\ Len(queries) = Len(kept)
       /\ \A k \in 1..Len(queries) :
            /\ endswith(queries[k], SUFFIX)
            /\ queries[k] = IF endswith(strip(kept[k].v), SUFFIX) THEN strip(kept[k].v)
                            ELSE strip(kept[k].v) \o SUFFIX
       /\ qpc = "reloaded" => \A k \in 1..Len(queries) : queries[k] = column[k].v

====
